---- MODULE Spec2Model ----
(***************************************************************************)
(* The reactive core of K2 (src/signals.ts, src/effect.ts): State,         *)
(* Computed, Watcher, untrack and the microtask effect scheduler.          *)
(*                                                                         *)
(* Every public operation runs synchronously to completion, so each one    *)
(* is one action.  The operation's whole call tree (pull, recompute, push, *)
(* hooks) is computed by recursive operators over a record `st` that holds *)
(* the fields of every ReactiveNode and the module-level variables.  A     *)
(* thrown exception is the field st.exc: while it is set, the statements   *)
(* that follow are skipped up to the enclosing catch / finally.            *)
(*                                                                         *)
(* JavaScript arrays are sequences read with 0-based indices; a write past *)
(* the end leaves holes, reading a hole or past the end gives undefined.   *)
(* An array field that is still `undefined` is the empty sequence: the     *)
(* code treats both alike (assertConsumerNode / assertProducerNode create  *)
(* it on first use, the other readers use ?? and ?.).                      *)
(***************************************************************************)
EXTENDS Integers, Sequences, FiniteSets, TLC

\* ---------------------------------------------------------------- bounds
MaxEpoch == 3      \* top-level writes stop once the global epoch reaches this
MaxVal == 1        \* source values are 0..MaxVal
MaxEffects == 4    \* effect() calls
MaxDispose == 3    \* top-level disposer calls
MaxWatch == 2      \* Watcher.watch(signal) calls per watcher
MaxKeys == 4       \* x-for keys are 1..MaxKeys
MaxItems == 4      \* ForItems created by one x-for directive

\* --------------------------------------------------- sentinels and values
UNSET == -1
COMPUTING == -2
ERRORED == -3
undefinedValue == -4     \* the JavaScript value undefined, stored as a value
undefinedNum == -1       \* undefined read from an array of numbers
Null == "null"           \* null node reference
HOLE == "hole"           \* array slot never written
UNDEF == "undefined"     \* array slot holding undefined

Values == 0..MaxVal

\* ------------------------------------------------------------ the objects
Sources == {"a", "f", "u", "g"}
Computeds == {"b", "c", "d", "k", "m", "t", "z", "y", "p", "q", "h", "j", "r", "i",
              "o", "s", "v", "tt", "zz"}
\* the Computed created by the i-th effect() call
EffectOrder == <<"e1", "e2", "e3", "e4", "e5", "e6">>
Effects == {EffectOrder[i] : i \in 1..MaxEffects}
Watchers == {"W", "w"}
Nodes == Sources \cup Computeds \cup Effects \cup Watchers

\* The object graphs built by the callers (tests and demo script): for each,
\* its States, its Computeds and the Computeds handed to the caller's Watcher.
Scenarios == {"diamond", "cond", "err", "cycle"}
\* graphs whose Watcher has a notify callback that calls back into the
\* engine: u.set(1), u.get(), r.get() or i.get(), inside try / catch or (the
\* names ending in x) letting the error out
NotifyScenarios == {"nset", "nget", "ncomp", "nself", "nsetx", "ngetx", "ncompx", "nselfx"}
NotifyCall(g) ==
    CASE g \in {"nset", "nsetx"} -> "set"
      [] g = "nwatch" -> "watch"
      [] g \in {"nget", "ngetx", "ncomp", "ncompx", "nself", "nselfx"} -> "get"
      [] OTHER -> "none"
NotifyTarget(g) ==
    CASE g \in {"ncomp", "ncompx", "nwatch"} -> "r"
      [] g \in {"nself", "nselfx"} -> "i"
      [] OTHER -> "u"
NotifyCatches(g) == g \in {"nset", "nget", "ncomp", "nself", "nwatch"}
ScenarioSources(g) ==
    CASE g = "diamond" -> {"a", "u"}
      [] g = "cond" -> {"f", "a", "u"}
      [] g = "err" -> {"a", "u"}
      [] g = "cycle" -> {"u"}
      [] g = "eff" -> {"a", "u", "g"}
      [] g = "untrack" -> {"a", "u"}
      [] g = "write" -> {"a", "u"}
      [] g \in NotifyScenarios \cup {"nwatch"} -> {"a", "u"}
      [] g = "equal" -> {"a", "u"}
      [] g = "throw" -> {"a", "u"}
      [] g = "boom" -> {"a", "u"}
      [] g = "cascade" -> {"a"}
      [] OTHER -> {}
ScenarioComputeds(g) ==
    CASE g = "diamond" -> {"b", "c", "d"}
      [] g = "cond" -> {"k", "m"}
      [] g = "err" -> {"t", "z"}
      [] g = "cycle" -> {"y", "p", "q"}
      [] g = "untrack" -> {"h", "j"}
      [] g \in NotifyScenarios -> {"r", "i"}
      [] g = "nwatch" -> {"r"}
      [] g = "equal" -> {"o", "s", "v"}
      [] g = "throw" -> {"tt", "zz"}
      [] g = "cascade" -> {"s", "v"}
      [] OTHER -> {}
ScenarioWatched(g) ==
    CASE g = "diamond" -> {"d"}
      [] g = "cond" -> {"m"}
      [] g = "err" -> {"z"}
      [] g = "cycle" -> {"p"}
      [] g = "untrack" -> {"h", "j"}
      [] g \in NotifyScenarios \cup {"nwatch"} -> {"r"}
      [] g = "throw" -> {"zz"}
      [] OTHER -> {}

\* A computation is a list of statements over a local list of read values.
\*   <<"get", n>>       push n.get()
\*   <<"const", v>>     push v
\*   <<"iff", x, y>>    pop c; push (c ? x.get() : y.get())
\*   <<"unless", x>>    pop c; push (c ? 0 : x.get())
\*   <<"throwif", v>>   if the last value is v: throw new Error(...)
\*   <<"untrack", n>>   push untrack(() => n.get())
\*   <<"set", s, v>>    s.set(v)
\*   <<"copy", s>>      s.set(the last value)
\*   <<"drop">>         pop (the value read is not used)
\*   <<"disposeif", e, v>>  if the last value is v: call effect e's disposer
\* The result of a Computed is the sum of the list.
Body(n) ==
    CASE n = "b" -> << <<"get", "a">>, <<"const", 1>> >>
      [] n = "c" -> << <<"get", "a">>, <<"get", "a">> >>
      [] n = "d" -> << <<"get", "b">>, <<"get", "c">> >>
      [] n = "k" -> << <<"get", "f">>, <<"iff", "a", "u">> >>
      [] n = "m" -> << <<"get", "k">>, <<"const", 1>> >>
      [] n = "t" -> << <<"get", "a">>, <<"throwif", 1>> >>
      [] n = "z" -> << <<"get", "t">>, <<"const", 1>> >>
      [] n = "y" -> << <<"get", "y">>, <<"const", 1>> >>
      [] n = "p" -> << <<"get", "q">>, <<"const", 1>> >>
      [] n = "q" -> << <<"get", "p">>, <<"const", 1>> >>
      [] n = "h" -> << <<"get", "a">>, <<"untrack", "u">> >>
      [] n = "j" -> << <<"untrack", "h">>, <<"get", "u">> >>
      [] n = "r" -> << <<"get", "a">>, <<"const", 1>> >>
      [] n = "i" -> << <<"set", "a", 1>>, <<"const", 1>> >>
      [] n = "o" -> << <<"get", "a">>, <<"get", "a">>, <<"get", "u">> >>
      [] n = "s" -> << <<"get", "a">>, <<"drop">>, <<"const", 1>> >>
      [] n = "v" -> << <<"get", "s">>, <<"const", 1>> >>
      [] n = "tt" -> << <<"get", "u">>, <<"drop">>, <<"get", "a">>, <<"throwif", 1>> >>
      [] n = "zz" -> << <<"get", "tt">>, <<"const", 1>> >>
      [] OTHER -> << >>

\* options.equals: "g" and "o" are built with a tolerance predicate, the
\* others with the default Object.is.
Tolerance == 2
defaultEquals(x, y) == x = y
Equal(n, x, y) ==
    IF n \in {"g", "o"} THEN (IF x >= y THEN x - y ELSE y - x) < Tolerance
    ELSE defaultEquals(x, y)

\* ------------------------------------------------------------- exceptions
NoError == [kind |-> "none", node |-> Null, run |-> 0]
Err(k, n, r) == [kind |-> k, node |-> n, run |-> r]
Throw(st, e) == [st EXCEPT !.exc = e]
Threw(st) == st.exc # NoError

\* ----------------------------------------------------------------- arrays
ArrGetN(arr, i) ==
    IF i >= 0 /\ i < Len(arr) /\ arr[i + 1] # HOLE THEN arr[i + 1] ELSE UNDEF
ArrGetI(arr, i) ==
    IF i >= 0 /\ i < Len(arr) THEN arr[i + 1] ELSE undefinedNum
ArrSet(arr, i, v, hole) ==
    IF i < 0 THEN arr
    ELSE IF i < Len(arr) THEN [arr EXCEPT ![i + 1] = v]
    ELSE arr \o [j \in 1..(i - Len(arr)) |-> hole] \o <<v>>
ArrPop(arr) == IF Len(arr) = 0 THEN arr ELSE SubSeq(arr, 1, Len(arr) - 1)


TypeError == Err("TypeError", Null, 0)
RangeError == Err("RangeError", Null, 0)

\* ------------------------------------------------- ReactiveNode operations
\* Each operation takes the heap st and returns the heap it leaves; a thrown
\* exception travels in st.exc.  Where the code goes on after a call, the
\* rest of the function is an operator of its own that takes the heap the
\* call left.
RECURSIVE ProducerAddLiveConsumer(_, _, _, _), AddLiveLoop(_, _, _)
RECURSIVE ProducerRemoveLiveConsumerAtIndex(_, _, _), RemoveLiveLoop(_, _, _)
RECURSIVE ProducerUpdateValueVersion(_, _), PollLoop(_, _, _)
RECURSIVE ProducerRecomputeValue(_, _), Exec(_, _, _, _, _)
RECURSIVE ProducerNotifyConsumers(_, _), NotifyLoop(_, _, _), ConsumerMarkDirty(_, _)
RECURSIVE StateSet(_, _, _), ComputedGet(_, _), Disposer(_, _), Get(_, _)

consumerIsAlwaysLive(n) == n \in Watchers

consumerIsLive(st, n) ==
    consumerIsAlwaysLive(n) \/ Len(st.liveConsumerNode[n]) > 0

\* node.producerIndexOfThis[i] = <index returned>, then the next producer
AddLiveStore(s1, node, i) ==
    IF Threw(s1) THEN s1
    ELSE AddLiveLoop(
           [s1 EXCEPT !.producerIndexOfThis[node] = ArrSet(@, i, s1.idx, undefinedNum)],
           node, i + 1)

\* the loop of producerAddLiveConsumer: a node that becomes live subscribes
\* to each of its own producers
AddLiveLoop(st, node, i) ==
    IF Threw(st) \/ i >= Len(st.producerNode[node]) THEN st
    ELSE AddLiveStore(
           ProducerAddLiveConsumer(st, ArrGetN(st.producerNode[node], i), node, i),
           node, i)

\* the two push() calls; the consumer's index is returned as st.idx
AddLivePush(s1, node, consumer, indexOfThis) ==
    IF Threw(s1) THEN s1
    ELSE [s1 EXCEPT !.liveConsumerIndexOfThis[node] = Append(@, indexOfThis),
                    !.liveConsumerNode[node] = Append(@, consumer),
                    !.idx = Len(s1.liveConsumerNode[node])]

ProducerAddLiveConsumer(st, node, consumer, indexOfThis) ==
    IF node \notin Nodes THEN Throw(st, TypeError)
    ELSE AddLivePush(IF Len(st.liveConsumerNode[node]) = 0
                     THEN AddLiveLoop(st, node, 0) ELSE st,
                     node, consumer, indexOfThis)

RemoveLiveLoop(st, node, i) ==
    IF Threw(st) \/ i >= Len(st.producerNode[node]) THEN st
    ELSE RemoveLiveLoop(
           ProducerRemoveLiveConsumerAtIndex(st, ArrGetN(st.producerNode[node], i),
                                             ArrGetI(st.producerIndexOfThis[node], i)),
           node, i + 1)

\* swap-with-last removal of entry idx of node.liveConsumerNode
RemoveLiveSwap(s1, node, idx) ==
    IF Threw(s1) THEN s1
    ELSE LET lcn == s1.liveConsumerNode[node]
             lci == s1.liveConsumerIndexOfThis[node]
             lastIdx == Len(lcn) - 1
             lcn1 == ArrSet(lcn, idx, ArrGetN(lcn, lastIdx), HOLE)
             lci1 == ArrSet(lci, idx, ArrGetI(lci, lastIdx), undefinedNum)
         IN  IF Len(lcn1) = 0 \/ Len(lci1) = 0
             THEN Throw(s1, RangeError)      \* length-- of an empty array
             ELSE LET lcn2 == ArrPop(lcn1)
                      lci2 == ArrPop(lci1)
                      s2 == [s1 EXCEPT !.liveConsumerNode[node] = lcn2,
                                       !.liveConsumerIndexOfThis[node] = lci2]
                  IN  IF idx >= 0 /\ idx < Len(lcn2)
                      THEN LET idxProducer == ArrGetI(lci2, idx)
                               consumer == ArrGetN(lcn2, idx)
                           IN  IF consumer \notin Nodes THEN Throw(s2, TypeError)
                               ELSE [s2 EXCEPT !.producerIndexOfThis[consumer] =
                                         ArrSet(@, idxProducer, idx, undefinedNum)]
                      ELSE s2

\* a removal that leaves the node in its own producers' lists when its last
\* live consumer goes
RemoveNoCascade(st, node, idx) ==
    IF node \notin Nodes THEN Throw(st, TypeError) ELSE RemoveLiveSwap(st, node, idx)

ProducerRemoveLiveConsumerAtIndex(st, node, idx) ==
    IF node \notin Nodes THEN Throw(st, TypeError)
    ELSE RemoveLiveSwap(IF Len(st.liveConsumerNode[node]) = 1
                        THEN RemoveLiveLoop(st, node, 0) ELSE st,
                        node, idx)

ReadInNotify == Err("Read in notify", Null, 0)
WriteInNotify == Err("Write in notify", Null, 0)

\* producerLastReadVersion[idx] = node.version
AccessedVersion(s2, node, ac, idx) ==
    [s2 EXCEPT !.producerLastReadVersion[ac] =
         ArrSet(@, idx, s2.version[node], undefinedNum)]

\* producerIndexOfThis[idx] = <index returned by producerAddLiveConsumer>
AccessedIndex(s2, node, ac, idx) ==
    IF Threw(s2) THEN s2
    ELSE AccessedVersion(
           [s2 EXCEPT !.producerIndexOfThis[ac] = ArrSet(@, idx, s2.idx, undefinedNum)],
           node, ac, idx)

\* the second if: the slot does not hold node yet
AccessedStore(s1, node, ac, idx) ==
    IF Threw(s1) THEN s1
    ELSE IF ArrGetN(s1.producerNode[ac], idx) = node THEN AccessedVersion(s1, node, ac, idx)
    ELSE IF consumerIsLive(s1, ac)
    THEN AccessedIndex(
           ProducerAddLiveConsumer(
               [s1 EXCEPT !.producerNode[ac] = ArrSet(@, idx, node, HOLE)], node, ac, idx),
           node, ac, idx)
    ELSE AccessedVersion(
           [s1 EXCEPT !.producerNode[ac] = ArrSet(@, idx, node, HOLE),
                      !.producerIndexOfThis[ac] = ArrSet(@, idx, 0, undefinedNum)],
           node, ac, idx)

\* the first if: a live consumer drops the stale producer of slot idx
AccessedAt(s0, node, ac, idx) ==
    AccessedStore(IF /\ idx < Len(s0.producerNode[ac])
                     /\ ArrGetN(s0.producerNode[ac], idx) # node
                     /\ consumerIsLive(s0, ac)
                  THEN ProducerRemoveLiveConsumerAtIndex(
                           s0, ArrGetN(s0.producerNode[ac], idx),
                           ArrGetI(s0.producerIndexOfThis[ac], idx))
                  ELSE s0,
                  node, ac, idx)

\* records `node` as the next producer of the active consumer
producerAccessed(st, node) ==
    IF st.inNotificationPhase THEN Throw(st, ReadInNotify)
    ELSE IF st.activeConsumer = Null THEN st
    ELSE AccessedAt([st EXCEPT !.nextProducerIndex[st.activeConsumer] = @ + 1],
                    node, st.activeConsumer, st.nextProducerIndex[st.activeConsumer])

\* a write that does not advance the global epoch
EpochKept(st) == st

\* an epoch that advances by two per write
EpochTwice(st) == [st EXCEPT !.epoch = @ + 2]

producerIncrementEpoch(st) == [st EXCEPT !.epoch = @ + 1]


\* ------------------------------------------------------------------- push
\* observation: the call a notify callback made into the engine, how it
\* ended and whether it changed a field of the graph
NoInner == [op |-> "none", node |-> Null, consumer |-> Null, exc |-> NoError,
            changed |-> FALSE]
GraphFields(st) ==
    <<st.value, st.version, st.epoch, st.dirty, st.error, st.lastCleanEpoch,
      st.producerNode, st.producerLastReadVersion, st.liveConsumerNode>>

\* the callback's call has returned or thrown; catch (e) {} swallows the error
NotifyReturn(s1, st, call) ==
    [s1 EXCEPT !.inner = [op |-> call, node |-> NotifyTarget(st.graph),
                          consumer |-> st.activeConsumer, exc |-> s1.exc,
                          changed |-> GraphFields(s1) # GraphFields(st)],
               !.exc = IF NotifyCatches(st.graph) THEN NoError ELSE s1.exc]

RECURSIVE Watch(_, _, _)
\* the notify callback of the caller's Watcher
NotifyCallback(st) ==
    CASE NotifyCall(st.graph) = "set" ->
             NotifyReturn(StateSet(st, NotifyTarget(st.graph), 1), st, "set")
      [] NotifyCall(st.graph) = "get" ->
             NotifyReturn(Get(st, NotifyTarget(st.graph)), st, "get")
      [] NotifyCall(st.graph) = "watch" ->
             NotifyReturn(Watch(st, "w", <<NotifyTarget(st.graph)>>), st, "watch")
      [] OTHER -> st

\* observation: one more call of node's notify callback since its last watch()
NotifyCounted(st, node) ==
    [st EXCEPT !.notified[node] = @ + 1,
               !.sinceWatch[node] = @ + 1,
               !.burst[node] = IF st.sinceWatch[node] + 1 > @
                               THEN st.sinceWatch[node] + 1 ELSE @]

\* a scheduler callback that queues a microtask on every call
QueueAlways(st, node) ==
    IF node = "W"
    THEN [NotifyCounted(st, node) EXCEPT !.needsEnqueue = FALSE, !.microtasks = @ + 1]
    ELSE IF node \in Watchers THEN NotifyCallback(NotifyCounted(st, node))
    ELSE st

consumerMarkedDirty(st, node) ==
    IF node = "W"
    THEN \* the scheduler's notify callback (effect.ts); observation: the calls
         \* that found needsEnqueue false
         IF st.needsEnqueue
         THEN [NotifyCounted(st, node) EXCEPT !.needsEnqueue = FALSE,
                                              !.microtasks = @ + 1]
         ELSE [NotifyCounted(st, node) EXCEPT !.coalesced = @ + 1]
    ELSE IF node \in Watchers
    THEN NotifyCallback(NotifyCounted(st, node))
    ELSE st

\* a push that marks consumers dirty whether or not they already are
NotifyEvery(st, node, i) ==
    IF Threw(st) \/ i >= Len(st.liveConsumerNode[node]) THEN st
    ELSE IF ArrGetN(st.liveConsumerNode[node], i) \notin Nodes THEN Throw(st, TypeError)
    ELSE NotifyLoop(ConsumerMarkDirty(st, ArrGetN(st.liveConsumerNode[node], i)),
                    node, i + 1)

NotifyLoop(st, node, i) ==
    IF Threw(st) \/ i >= Len(st.liveConsumerNode[node]) THEN st
    ELSE IF ArrGetN(st.liveConsumerNode[node], i) \notin Nodes THEN Throw(st, TypeError)
    ELSE NotifyLoop(IF ~st.dirty[ArrGetN(st.liveConsumerNode[node], i)]
                    THEN ConsumerMarkDirty(st, ArrGetN(st.liveConsumerNode[node], i))
                    ELSE st,
                    node, i + 1)

\* a restore that is skipped when a callback throws
RestoreOnReturn(s1, prev) ==
    IF Threw(s1) THEN s1 ELSE [s1 EXCEPT !.inNotificationPhase = prev]

\* finally { inNotificationPhase = prev }
NotifyRestore(s1, prev) == [s1 EXCEPT !.inNotificationPhase = prev]

ProducerNotifyConsumers(st, node) ==
    NotifyRestore(NotifyLoop([st EXCEPT !.inNotificationPhase = TRUE], node, 0),
                  st.inNotificationPhase)

\* node.consumerMarkedDirty?.call(...) once the node's own consumers are told
MarkedDirtyCall(s1, node) ==
    IF Threw(s1) THEN s1 ELSE consumerMarkedDirty(s1, node)

ConsumerMarkDirty(st, node) ==
    MarkedDirtyCall(ProducerNotifyConsumers([st EXCEPT !.dirty[node] = TRUE], node), node)

\* ------------------------------------------------------------------- pull
\* recomputing on every read / on a cached error / not while computing
MustAlways(st, node) == node \in Computeds \cup Effects
MustOnError(st, node) ==
    /\ node \in Computeds \cup Effects
    /\ st.value[node] \in {UNSET, COMPUTING, ERRORED}
MustOnUnset(st, node) ==
    /\ node \in Computeds \cup Effects
    /\ st.value[node] = UNSET

producerMustRecompute(st, node) ==
    /\ node \in Computeds \cup Effects
    /\ st.value[node] \in {UNSET, COMPUTING}

\* the second version test of the loop, after the producer was brought up to date
PollAfterUpdate(s1, node, i, producer, seenVersion) ==
    IF Threw(s1) THEN s1
    ELSE IF seenVersion # s1.version[producer] THEN [s1 EXCEPT !.flag = TRUE]
    ELSE PollLoop(s1, node, i + 1)

\* consumerPollProducersForChange: the answer is st.flag
PollLoop(st, node, i) ==
    IF i >= Len(st.producerNode[node]) THEN [st EXCEPT !.flag = FALSE]
    ELSE LET producer == ArrGetN(st.producerNode[node], i)
             seenVersion == ArrGetI(st.producerLastReadVersion[node], i)
         IN  IF producer \notin Nodes THEN Throw(st, TypeError)
             ELSE IF seenVersion # st.version[producer] THEN [st EXCEPT !.flag = TRUE]
             ELSE PollAfterUpdate(ProducerUpdateValueVersion(st, producer),
                                  node, i, producer, seenVersion)

\* a poll that never reports a change
PollNothing(st, node) == [st EXCEPT !.flag = FALSE]

consumerPollProducersForChange(st, node) == PollLoop(st, node, 0)

MarkClean(st, node) ==
    [st EXCEPT !.dirty[node] = FALSE, !.lastCleanEpoch[node] = st.epoch]

\* node.producerRecomputeValue(node); node.dirty = false; node.lastCleanEpoch = epoch
RecomputeClean(s2, node) == IF Threw(s2) THEN s2 ELSE MarkClean(s2, node)

\* the if of producerUpdateValueVersion once the producers were polled
UpdateAfterPoll(s1, node) ==
    IF Threw(s1) THEN s1
    ELSE IF ~s1.flag THEN MarkClean(s1, node)
    ELSE RecomputeClean(ProducerRecomputeValue(s1, node), node)

ProducerUpdateValueVersion(st, node) ==
    IF ~st.dirty[node] /\ st.lastCleanEpoch[node] = st.epoch THEN st
    ELSE IF producerMustRecompute(st, node)
    THEN RecomputeClean(ProducerRecomputeValue(st, node), node)
    ELSE UpdateAfterPoll(consumerPollProducersForChange(st, node), node)

RECURSIVE AfterLoop(_, _, _)
AfterLoop(st, node, i) ==
    IF Threw(st) \/ i >= Len(st.producerNode[node]) THEN st
    ELSE AfterLoop(
           ProducerRemoveLiveConsumerAtIndex(st, ArrGetN(st.producerNode[node], i),
                                             ArrGetI(st.producerIndexOfThis[node], i)),
           node, i + 1)

Truncate(arr, n) == IF Len(arr) > n THEN SubSeq(arr, 1, n) ELSE arr

\* the while loop: pop() the three arrays down to nextProducerIndex entries
AfterPop(s1, node) ==
    LET n == s1.nextProducerIndex[node]
        k == Len(s1.producerNode[node]) - n
    IN  IF Threw(s1) \/ k <= 0 THEN s1
        ELSE [s1 EXCEPT !.producerNode[node] = Truncate(@, n),
                        !.producerLastReadVersion[node] = Truncate(@, Len(@) - k),
                        !.producerIndexOfThis[node] = Truncate(@, Len(@) - k)]

\* a recomputation that drops the entries no longer read without unsubscribing
AfterPopOnly(st, node, prevConsumer) ==
    AfterPop([st EXCEPT !.activeConsumer = prevConsumer], node)

consumerAfterComputation(st, node, prevConsumer) ==
    AfterPop(IF consumerIsLive(st, node)
             THEN AfterLoop([st EXCEPT !.activeConsumer = prevConsumer],
                            node, st.nextProducerIndex[node])
             ELSE [st EXCEPT !.activeConsumer = prevConsumer],
             node)

RECURSIVE Sum(_)
Sum(acc) == IF acc = << >> THEN 0 ELSE acc[1] + Sum(Tail(acc))

\* return node.value
StateValue(s1, n) == IF Threw(s1) THEN s1 ELSE [s1 EXCEPT !.ret = s1.value[n]]

StateGet(st, n) == StateValue(producerAccessed(st, n), n)

Get(st, n) == IF n \in Sources THEN StateGet(st, n) ELSE ComputedGet(st, n)

\* an untrack that leaves the caller's consumer active
Tracked(st, n) == Get(st, n)

\* finally { setActiveConsumer(prev) }
UntrackRestore(s1, prev) == [s1 EXCEPT !.activeConsumer = prev]

untrack(st, n) ==
    UntrackRestore(Get([st EXCEPT !.activeConsumer = Null], n), st.activeConsumer)

\* the value just read becomes an operand; on to the next statement
ExecPush(s1, n, prog, pc, acc) == Exec(s1, n, prog, pc + 1, Append(acc, s1.ret))

Front(acc) == SubSeq(acc, 1, Len(acc) - 1)

\* runs the statements of a computation from statement pc on
Exec(st, n, prog, pc, acc) ==
    IF Threw(st) THEN st
    ELSE IF pc > Len(prog) THEN [st EXCEPT !.ret = Sum(acc)]
    ELSE LET ins == prog[pc]
             op == ins[1]
         IN  CASE op = "get" -> ExecPush(Get(st, ins[2]), n, prog, pc, acc)
               [] op = "const" -> Exec(st, n, prog, pc + 1, Append(acc, ins[2]))
               [] op = "iff" ->
                    ExecPush(Get(st, IF acc[Len(acc)] # 0 THEN ins[2] ELSE ins[3]),
                             n, prog, pc, Front(acc))
               [] op = "unless" ->
                    IF acc[Len(acc)] = 0
                    THEN ExecPush(Get(st, ins[2]), n, prog, pc, Front(acc))
                    ELSE Exec(st, n, prog, pc + 1, Append(Front(acc), 0))
               [] op = "throwif" ->
                    IF acc[Len(acc)] = ins[2]
                    THEN Throw(st, Err("Error", n, st.epoch))
                    ELSE Exec(st, n, prog, pc + 1, acc)
               [] op = "untrack" -> ExecPush(untrack(st, ins[2]), n, prog, pc, acc)
               [] op = "set" -> Exec(StateSet(st, ins[2], ins[3]), n, prog, pc + 1, acc)
               [] op = "drop" -> Exec(st, n, prog, pc + 1, Front(acc))
               [] op = "copy" ->
                    Exec(StateSet(st, ins[2], acc[Len(acc)]), n, prog, pc + 1, acc)
               [] op = "disposeif" ->
                    IF acc[Len(acc)] = ins[3] /\ st.disposer[ins[2]]
                    THEN Exec(Disposer(st, ins[2]), n, prog, pc + 1, acc)
                    ELSE Exec(st, n, prog, pc + 1, acc)
               [] OTHER -> Exec(st, n, prog, pc + 1, acc)


\* the callbacks handed to effect() by the callers
EffectBodies == {"readAU", "readG", "unless", "killer", "self", "untracked", "readU",
                 "relay", "selfw", "readO", "readS", "boom", "pick"}
EffProg(body, e) ==
    CASE body = "readAU" -> << <<"get", "a">>, <<"get", "u">> >>
      [] body = "readG" -> << <<"get", "g">> >>
      [] body = "unless" -> << <<"get", "a">>, <<"unless", "u">> >>
      [] body = "killer" -> << <<"get", "a">>, <<"disposeif", "e2", 1>> >>
      [] body = "self" -> << <<"get", "a">>, <<"disposeif", e, 1>> >>
      [] body = "untracked" -> << <<"get", "a">>, <<"untrack", "u">> >>
      [] body = "readU" -> << <<"get", "u">> >>
      [] body = "readO" -> << <<"get", "o">> >>
      [] body = "readS" -> << <<"get", "s">> >>
      [] body = "relay" -> << <<"get", "a">>, <<"copy", "u">> >>
      [] body = "selfw" -> << <<"get", "u">>, <<"get", "a">>, <<"copy", "u">> >>
      [] body = "boom" -> << <<"get", "a">>, <<"throwif", 1>> >>
      [] body = "pick" -> << <<"get", "a">>, <<"unless", "v">> >>
      [] OTHER -> << >>
\* the callbacks the i-th effect() call of the caller may pass
EffectChoices(e) ==
    CASE e = "e1" -> {"killer"}
      [] e = "e2" -> {"self", "unless"}
      [] e = "e3" -> {"readG"}
      [] OTHER -> {"readAU"}
\* whether the callback returns a cleanup function
ReturnsCleanup(body) == body \in {"readAU", "readG", "self"}

\* ------------------------------------------------- reference semantics
\* Used by the properties only.  What a computation yields when it is
\* evaluated from scratch on the source values `vals`, with no cache: ok and
\* the value v, or the kind of the error it throws; deps are the sources it
\* reads on the way (reads inside untrack excluded), direct the sources its
\* own statements read.
RECURSIVE Ideal(_, _, _), IdealExec(_, _, _, _, _, _)
Ideal(n, vals, stack) ==
    IF n \in Sources
    THEN [ok |-> TRUE, v |-> vals[n], kind |-> "none", deps |-> {n}, direct |-> {}]
    ELSE IF n \in stack
    THEN [ok |-> FALSE, v |-> 0, kind |-> "Cycle", deps |-> {}, direct |-> {}]
    ELSE IdealExec(n, 1, << >>, [deps |-> {}, direct |-> {}], vals, stack \cup {n})

IdealProg(n, vals) == IF n \in Effects THEN EffProg(vals.body[n], n) ELSE Body(n)

IdealTarget(ins, acc) ==
    IF ins[1] = "iff" THEN (IF acc[Len(acc)] # 0 THEN ins[2] ELSE ins[3]) ELSE ins[2]

\* statement ins of n has read target and got r
IdealRead(n, pc, acc, d, vals, stack, ins, target, r) ==
    LET d2 == IF ins[1] = "untrack" THEN d
              ELSE [deps |-> d.deps \cup r.deps,
                    direct |-> d.direct \cup ({target} \cap Sources)]
        base == IF ins[1] \in {"iff", "unless"} THEN Front(acc) ELSE acc
    IN  IF r.ok THEN IdealExec(n, pc + 1, Append(base, r.v), d2, vals, stack)
        ELSE [r EXCEPT !.deps = d2.deps, !.direct = d2.direct]

IdealStep(n, pc, acc, d, vals, stack, ins) ==
    CASE ins[1] \in {"get", "iff", "untrack"} \/ (ins[1] = "unless" /\ acc[Len(acc)] = 0) ->
            IdealRead(n, pc, acc, d, vals, stack, ins, IdealTarget(ins, acc),
                      Ideal(IdealTarget(ins, acc), vals, stack))
      [] ins[1] = "unless" -> IdealExec(n, pc + 1, Append(Front(acc), 0), d, vals, stack)
      [] ins[1] = "const" -> IdealExec(n, pc + 1, Append(acc, ins[2]), d, vals, stack)
      [] ins[1] = "drop" -> IdealExec(n, pc + 1, Front(acc), d, vals, stack)
      [] ins[1] = "throwif" /\ acc[Len(acc)] = ins[2] ->
            [ok |-> FALSE, v |-> 0, kind |-> "Error", deps |-> d.deps, direct |-> d.direct]
      [] OTHER -> IdealExec(n, pc + 1, acc, d, vals, stack)

IdealExec(n, pc, acc, d, vals, stack) ==
    IF pc > Len(IdealProg(n, vals))
    THEN [ok |-> TRUE, v |-> Sum(acc), kind |-> "none", deps |-> d.deps, direct |-> d.direct]
    ELSE IdealStep(n, pc, acc, d, vals, stack, IdealProg(n, vals)[pc])

\* observation: the versions of the sources the run of n that just ended
\* depends on (-1 for the others), and the sources its own statements read
SnapshotOf(st, n, x) ==
    [st EXCEPT !.seenAtRun[n] =
                   [s \in Sources |-> IF s \in x.deps THEN st.version[s] ELSE -1],
               !.directAtRun[n] = x.direct]
Snapshot(st, n) ==
    SnapshotOf(st, n,
               Ideal(n, [s \in Sources |-> st.value[s]] @@ [body |-> st.effBody], {}))

\* invoking the cleanup closure that run g of effect e returned
CallCleanup(st, e, g) == [st EXCEPT !.cleanupCalls[e][g] = @ + 1]

\* callback() is entered; observation: how often the cleanup function held
\* at that moment has been invoked (-1: none held)
EffectCallback(s1, e) ==
    [s1 EXCEPT !.ran[e] = @ + 1,
               !.lateRuns[e] = IF s1.returned[e] THEN @ + 1 ELSE @,
               !.atStart[e] = IF s1.cleanup[e] # 0
                              THEN s1.cleanupCalls[e][s1.cleanup[e]] ELSE -1]

\* if (typeof cleanup === 'function') cleanup(); then the callback starts
EffectStart(st, e) ==
    EffectCallback(IF st.cleanup[e] # 0 THEN CallCleanup(st, e, st.cleanup[e]) ELSE st, e)

\* cleanup = <what the callback returned>
EffectStore(s2, e) ==
    IF Threw(s2) THEN s2
    ELSE IF ReturnsCleanup(s2.effBody[e])
    THEN [s2 EXCEPT !.cleanupCalls[e] = Append(@, 0),
                    !.cleanup[e] = Len(s2.cleanupCalls[e]) + 1,
                    !.ret = undefinedValue]
    ELSE [s2 EXCEPT !.cleanup[e] = 0, !.ret = undefinedValue]

\* the function handed to `new Computed` by effect()
EffectComputation(st, e) ==
    EffectStore(
        Snapshot(Exec(EffectStart(st, e), e, EffProg(st.effBody[e], e), 1, << >>), e),
        e)

computation(st, n) ==
    IF n \in Effects THEN EffectComputation(st, n)
    ELSE Snapshot(Exec([st EXCEPT !.ran[n] = @ + 1], n, Body(n), 1, << >>), n)

\* a recomputation that stores the new value whatever equal() said
CommitAlways(s4, n, oldValue, newValue, wasEqual) ==
    IF Threw(s4) THEN s4
    ELSE [s4 EXCEPT !.value[n] = newValue, !.version[n] = @ + 1]

\* a recomputation that takes a throw after a throw for an equal result
CommitErrorOnce(s4, n, oldValue, newValue, wasEqual) ==
    IF Threw(s4) THEN s4
    ELSE IF wasEqual \/ (oldValue = ERRORED /\ newValue = ERRORED)
         THEN [s4 EXCEPT !.value[n] = oldValue]
    ELSE [s4 EXCEPT !.value[n] = newValue, !.version[n] = @ + 1]

\* a recomputation that stores a changed value without a new version
CommitSilently(s4, n, oldValue, newValue, wasEqual) ==
    IF Threw(s4) THEN s4
    ELSE IF wasEqual THEN [s4 EXCEPT !.value[n] = oldValue]
    ELSE [s4 EXCEPT !.value[n] = newValue]

\* the statements after finally: keep the old value or store the new one
RecomputeCommit(s4, n, oldValue, newValue, wasEqual) ==
    IF Threw(s4) THEN s4
    ELSE IF wasEqual THEN [s4 EXCEPT !.value[n] = oldValue]
    ELSE [s4 EXCEPT !.value[n] = newValue, !.version[n] = @ + 1]

\* the try / catch / finally around n.computation()
RecomputeStore(s2, n, oldValue, prevConsumer) ==
    LET threw == Threw(s2)
        newValue == IF threw THEN ERRORED ELSE s2.ret
        wasEqual == /\ ~threw
                    /\ oldValue # UNSET /\ oldValue # ERRORED
                    /\ Equal(n, oldValue, newValue)
    IN  RecomputeCommit(
            consumerAfterComputation(
                IF threw THEN [s2 EXCEPT !.exc = NoError, !.error[n] = s2.exc] ELSE s2,
                n, prevConsumer),
            n, oldValue, newValue, wasEqual)

ProducerRecomputeValue(st, n) ==
    IF n \notin Computeds \cup Effects THEN st       \* REACTIVE_NODE's no-op
    ELSE IF st.value[n] = COMPUTING THEN Throw(st, Err("Cycle", n, st.epoch))
    ELSE RecomputeStore(
            computation([st EXCEPT !.value[n] = COMPUTING,      \* and
                                   !.nextProducerIndex[n] = 0,  \* consumerBeforeComputation
                                   !.activeConsumer = n], n),
            n, st.value[n], st.activeConsumer)

\* a set() that does not look at the notification phase
SetUnchecked(st, n, newValue) ==
    IF ~Equal(n, st.value[n], newValue)
    THEN ProducerNotifyConsumers(
             producerIncrementEpoch([st EXCEPT !.value[n] = newValue, !.version[n] = @ + 1]), n)
    ELSE st

\* a set() that skips the equality test
SetUnconditionally(st, n, newValue) ==
    IF st.inNotificationPhase THEN Throw(st, WriteInNotify)
    ELSE ProducerNotifyConsumers(
             producerIncrementEpoch([st EXCEPT !.value[n] = newValue, !.version[n] = @ + 1]), n)

\* a set() that runs its first live consumer before it returns
RunFirstConsumer(s1, n) ==
    IF Threw(s1) \/ ArrGetN(s1.liveConsumerNode[n], 0) \notin Effects THEN s1
    ELSE ComputedGet(s1, ArrGetN(s1.liveConsumerNode[n], 0))
SetThenRun(st, n, newValue) ==
    IF st.inNotificationPhase THEN Throw(st, WriteInNotify)
    ELSE IF ~Equal(n, st.value[n], newValue)
    THEN RunFirstConsumer(
             ProducerNotifyConsumers(
                 producerIncrementEpoch([st EXCEPT !.value[n] = newValue, !.version[n] = @ + 1]),
                 n), n)
    ELSE st

\* observation, when a value-changing set() returns: the nodes reachable from
\* the State through liveConsumerNode entries that are not dirty
RECURSIVE LiveReach(_, _, _)
LiveConsumersOf(st, S) ==
    {m \in Nodes : \E n \in S : \E j \in 1..Len(st.liveConsumerNode[n]) :
                     st.liveConsumerNode[n][j] = m}
LiveReach(st, frontier, found) ==
    IF frontier = {} THEN found
    ELSE LiveReach(st, LiveConsumersOf(st, frontier) \ found,
                   found \cup LiveConsumersOf(st, frontier))
SetReturned(s1, n) ==
    IF Threw(s1) THEN s1
    ELSE [s1 EXCEPT !.missed = @ \cup {m \in LiveReach(s1, {n}, {}) : ~s1.dirty[m]}]

StateSet(st, n, newValue) ==
    IF st.inNotificationPhase THEN Throw(st, WriteInNotify)
    ELSE IF ~Equal(n, st.value[n], newValue)
    THEN SetReturned(
           ProducerNotifyConsumers(
             producerIncrementEpoch([st EXCEPT !.value[n] = newValue, !.version[n] = @ + 1]), n),
           n)
    ELSE st

\* a get() that returns 0 for a node holding an error
GetQuiet(s2, n) ==
    IF Threw(s2) THEN s2
    ELSE [s2 EXCEPT !.ret = IF s2.value[n] = ERRORED THEN 0 ELSE s2.value[n]]

\* a get() that returns whatever the node holds
GetRaw(s2, n) ==
    IF Threw(s2) THEN s2
    ELSE [s2 EXCEPT !.ret = s2.value[n],
                    !.leaked = @ \/ s2.value[n] \in {UNSET, COMPUTING, ERRORED}]

\* if (node.value === ERRORED) throw node.error; return node.value
\* observation: an internal state was returned as a value
GetValue(s2, n) ==
    IF Threw(s2) THEN s2
    ELSE IF s2.value[n] = ERRORED THEN Throw(s2, s2.error[n])
    ELSE [s2 EXCEPT !.ret = s2.value[n],
                    !.leaked = @ \/ s2.value[n] \in {UNSET, COMPUTING, ERRORED}]

GetAccessed(s1, n) == IF Threw(s1) THEN s1 ELSE GetValue(producerAccessed(s1, n), n)

ComputedGet(st, n) == GetAccessed(ProducerUpdateValueVersion(st, n), n)

\* ---------------------------------------------------------------- Watcher
InSeq(x, seq) == \E i \in 1..Len(seq) : seq[i] = x

RECURSIVE WatchLoop(_, _, _, _)
\* if (!this.#signals.includes(signal)) this.#signals.push(signal)
WatchAdd(s1, w, sigs, i) ==
    IF Threw(s1) THEN s1
    ELSE WatchLoop([s1 EXCEPT !.signals[w] =
                        IF InSeq(sigs[i], @) THEN @ ELSE Append(@, sigs[i])],
                   w, sigs, i + 1)

WatchLoop(st, w, sigs, i) ==
    IF i > Len(sigs) THEN st
    ELSE WatchAdd(producerAccessed(st, sigs[i]), w, sigs, i)

\* setActiveConsumer(prev), not reached when the loop threw
WatchRestore(s1, prev) ==
    IF Threw(s1) THEN s1 ELSE [s1 EXCEPT !.activeConsumer = prev]

Watch(st, w, sigs) ==
    WatchRestore(WatchLoop([st EXCEPT !.dirty[w] = FALSE, !.activeConsumer = w,
                                      !.sinceWatch[w] = 0], w, sigs, 1),
                 st.activeConsumer)

RECURSIVE UnwatchLoop(_, _, _, _)
\* the swap-with-last removal of entry i of the watcher's producerNode
UnwatchSwap(s1, w, sigs, i) ==
    IF Threw(s1) THEN s1
    ELSE LET pn == s1.producerNode[w]
             pio == s1.producerIndexOfThis[w]
             lastIdx == Len(pn) - 1
             pn2 == ArrPop(ArrSet(pn, i, ArrGetN(pn, lastIdx), HOLE))
             pio2 == ArrPop(ArrSet(pio, i, ArrGetI(pio, lastIdx), undefinedNum))
             s2 == [s1 EXCEPT !.producerNode[w] = pn2,
                              !.producerIndexOfThis[w] = pio2]
         IN  IF i < Len(pn2)
             THEN LET idxConsumer == ArrGetI(pio2, i)
                      producer == ArrGetN(pn2, i)
                  IN  IF producer \notin Nodes THEN Throw(s2, TypeError)
                      ELSE UnwatchLoop(
                             [s2 EXCEPT !.liveConsumerIndexOfThis[producer] =
                                  ArrSet(@, idxConsumer, i, undefinedNum)],
                             w, sigs, i - 1)
             ELSE UnwatchLoop(s2, w, sigs, i - 1)

UnwatchLoop(st, w, sigs, i) ==
    IF Threw(st) \/ i < 0 THEN st
    ELSE IF ~InSeq(ArrGetN(st.producerNode[w], i), sigs) THEN UnwatchLoop(st, w, sigs, i - 1)
    ELSE UnwatchSwap(
           ProducerRemoveLiveConsumerAtIndex(st, ArrGetN(st.producerNode[w], i),
                                             ArrGetI(st.producerIndexOfThis[w], i)),
           w, sigs, i)

\* this.#signals = this.#signals.filter(...)
UnwatchFilter(s1, w, sigs) ==
    IF Threw(s1) THEN s1
    ELSE [s1 EXCEPT !.signals[w] = SelectSeq(@, LAMBDA x : ~InSeq(x, sigs))]

Unwatch(st, w, sigs) ==
    UnwatchFilter(UnwatchLoop(st, w, sigs, Len(st.producerNode[w]) - 1), w, sigs)

\* filter skips holes; a slot holding undefined makes n.dirty throw
GetPendingThrows(st, w) ==
    \E i \in 1..Len(st.producerNode[w]) : st.producerNode[w][i] = UNDEF
GetPending(st, w) ==
    SelectSeq(st.producerNode[w],
              LAMBDA n : n \in Nodes /\ st.dirty[n] /\ n \in Computeds \cup Effects)

\* ----------------------------------------------------------- effect system
RECURSIVE FlushCatching(_, _, _)
\* a scheduler that catches what an effect throws and goes on
FlushCatching(st, pending, i) ==
    IF Threw(st) \/ i > Len(pending) THEN st
    ELSE FlushCatching([ComputedGet(st, pending[i]) EXCEPT !.exc = NoError], pending, i + 1)

RECURSIVE FlushLoop(_, _, _)
FlushLoop(st, pending, i) ==
    IF Threw(st) \/ i > Len(pending) THEN st
    ELSE FlushLoop(ComputedGet(st, pending[i]), pending, i + 1)

\* the closing watcher.watch()
PendingDone(s2) == IF Threw(s2) THEN s2 ELSE Watch(s2, "W", << >>)

\* for (const computed of watcher.getPending()) computed.get()
PendingRun(s1) ==
    IF Threw(s1) THEN s1
    ELSE IF GetPendingThrows(s1, "W") THEN Throw(s1, TypeError)
    ELSE PendingDone(FlushLoop(s1, GetPending(s1, "W"), 1))

processPending(st) ==
    PendingRun(Watch([st EXCEPT !.needsEnqueue = TRUE], "W", << >>))

\* return the disposer
EffectReturn(s2, e) == IF Threw(s2) THEN s2 ELSE [s2 EXCEPT !.disposer[e] = TRUE]

\* an effect() that leaves the first run to the next flush
EffectLazy(s1, e) == EffectReturn(s1, e)

\* computed.get(), the immediate first run
EffectRun(s1, e) == IF Threw(s1) THEN s1 ELSE EffectReturn(ComputedGet(s1, e), e)

effect(st, e, body) ==
    EffectRun(Watch([st EXCEPT !.effBody[e] = body], "W", <<e>>), e)

\* if (typeof cleanup === 'function') cleanup()
DisposerCleanup(s1, e) ==
    IF Threw(s1) THEN s1
    ELSE [(IF s1.cleanup[e] # 0 THEN CallCleanup(s1, e, s1.cleanup[e]) ELSE s1)
             EXCEPT !.returned[e] = TRUE]

Disposer(st, e) ==
    DisposerCleanup(Unwatch([st EXCEPT !.disposals[e] = @ + 1], "W", <<e>>), e)


\* ------------------------------------------------- x-for (src/index.ts)
\* processForDirective keeps one ForItem per rendered key.  A ForItem and its
\* element are created together and never separated, so one number names
\* both; NoItem is null.  `fs` holds the ForState, the fields of every
\* ForItem ever created, the children that follow the anchor comment, and the
\* local variables of the running reconcileFor call.
Keys == 1..MaxKeys
Items == 1..MaxItems
NoItem == 0
NoDomError == "none"

IndexOf(seq, x) ==
    IF \E j \in 1..Len(seq) : seq[j] = x THEN CHOOSE j \in 1..Len(seq) : seq[j] = x
    ELSE 0
Without(seq, x) == SelectSeq(seq, LAMBDA y : y # x)
InsertAt(seq, j, x) == SubSeq(seq, 1, j - 1) \o <<x>> \o SubSeq(seq, j, Len(seq))

\* element.nextSibling; anchor.nextSibling
nextSibling(fs, el) ==
    IF IndexOf(fs.childNodes, el) \in {0, Len(fs.childNodes)} THEN NoItem
    ELSE fs.childNodes[IndexOf(fs.childNodes, el) + 1]
anchorNextSibling(fs) ==
    IF fs.childNodes = << >> THEN NoItem ELSE Head(fs.childNodes)

\* parent.insertBefore(el, ref): a node already in the tree is moved; a
\* reference that is not a child of the parent is a NotFoundError; inserting
\* a node before itself leaves it where it is
insertBefore(fs, el, ref) ==
    IF ref = NoItem THEN [fs EXCEPT !.childNodes = Append(Without(@, el), el)]
    ELSE IF IndexOf(fs.childNodes, ref) = 0 THEN [fs EXCEPT !.exc = "NotFoundError"]
    ELSE IF ref = el THEN fs
    ELSE [fs EXCEPT !.childNodes =
             InsertAt(Without(@, el), IndexOf(Without(@, el), ref), el)]

\* element.remove()
remove(fs, el) == [fs EXCEPT !.childNodes = Without(@, el)]

\* keyMap is a Map: its entries are kept in insertion order
KeyMapGet(fs, k) ==
    IF \E j \in 1..Len(fs.keyMap) : fs.key[fs.keyMap[j]] = k
    THEN fs.keyMap[CHOOSE j \in 1..Len(fs.keyMap) : fs.key[fs.keyMap[j]] = k]
    ELSE NoItem
KeyMapDelete(fs, k) ==
    [fs EXCEPT !.keyMap = SelectSeq(@, LAMBDA it : fs.key[it] # k)]

UnlinkPrev(fs, it) ==
    IF fs.prev[it] # NoItem THEN [fs EXCEPT !.next[fs.prev[it]] = fs.next[it]]
    ELSE [fs EXCEPT !.first = fs.next[it]]
UnlinkNext(fs, it) ==
    IF fs.next[it] # NoItem THEN [fs EXCEPT !.prev[fs.next[it]] = fs.prev[it]]
    ELSE [fs EXCEPT !.last = fs.prev[it]]
unlinkItem(fs, it) ==
    [UnlinkNext(UnlinkPrev(fs, it), it) EXCEPT !.prev[it] = NoItem, !.next[it] = NoItem]

LinkNeighbour(fs, it, nxt) ==
    IF nxt # NoItem THEN [fs EXCEPT !.prev[nxt] = it] ELSE [fs EXCEPT !.last = it]
linkAfter(fs, it, after) ==
    IF after = NoItem
    THEN [LinkNeighbour([fs EXCEPT !.prev[it] = NoItem, !.next[it] = fs.first],
                        it, fs.first)
             EXCEPT !.first = it]
    ELSE [LinkNeighbour([fs EXCEPT !.prev[it] = after, !.next[it] = fs.next[after]],
                        it, fs.next[after])
             EXCEPT !.next[after] = it]

moveItemBefore(fs, it, before) == insertBefore(fs, it, before)

removeItem(fs, it) ==
    KeyMapDelete([remove(unlinkItem(fs, it), it) EXCEPT !.cleaned = @ \cup {it}],
                 fs.key[it])

\* createForItem; keyMap.set(key, item)
createForItem(fs, k) ==
    [fs EXCEPT !.created = @ + 1, !.key[fs.created + 1] = k,
               !.prev[fs.created + 1] = NoItem, !.next[fs.created + 1] = NoItem,
               !.keyMap = Append(@, fs.created + 1)]

\* const insertBefore = prev ? prev.element.nextSibling : anchor.nextSibling;
\* anchor.parentNode?.insertBefore(item.element, insertBefore)
InsertAfterPrev(fs, it) ==
    insertBefore(fs, it, IF fs.prevItem # NoItem THEN nextSibling(fs, fs.prevItem)
                         ELSE anchorNextSibling(fs))

\* ... ; unlinkItem(item); linkAfter(item, prev)
MoveHere(fs, it) ==
    IF InsertAfterPrev(fs, it).exc # NoDomError THEN InsertAfterPrev(fs, it)
    ELSE linkAfter(unlinkItem(InsertAfterPrev(fs, it), it), it, fs.prevItem)

\* for (const [key, item] of keyMap) if (!newKeySet.has(key)) toRemove.push(item)
toRemove(fs, newKeys) ==
    SelectSeq(fs.keyMap, LAMBDA it : \A j \in 1..Len(newKeys) : newKeys[j] # fs.key[it])

RECURSIVE RemoveAll(_, _, _)
RemoveAll(fs, items, j) ==
    IF j > Len(items) THEN fs ELSE RemoveAll(removeItem(fs, items[j]), items, j + 1)

\* the new-item branch
InsertNew(fs, k) ==
    IF InsertAfterPrev(createForItem(fs, k), fs.created + 1).exc # NoDomError
    THEN InsertAfterPrev(createForItem(fs, k), fs.created + 1)
    ELSE [linkAfter(InsertAfterPrev(createForItem(fs, k), fs.created + 1),
                    fs.created + 1, fs.prevItem)
             EXCEPT !.prevItem = fs.created + 1]

\* the loop that moves every matched item to before the first stashed item
RECURSIVE MoveMatched(_, _)
MoveMatchedLink(fs, j) ==
    IF fs.exc # NoDomError THEN fs
    ELSE linkAfter(fs, fs.matched[j], IF j = 1 THEN fs.prevItem ELSE fs.matched[j - 1])
MoveMatched(fs, j) ==
    IF fs.exc # NoDomError \/ j > Len(fs.matched) THEN fs
    ELSE MoveMatched(
           MoveMatchedLink(moveItemBefore(unlinkItem(fs, fs.matched[j]),
                                          fs.matched[j], fs.stashed[1]), j),
           j + 1)

\* the branch for an item that was stashed by an earlier search
SeenReset(fs, it, stashed0) ==
    IF fs.exc # NoDomError THEN fs
    ELSE [fs EXCEPT !.prevItem = it, !.current = stashed0,
                    !.matched = << >>, !.stashed = << >>, !.seen = {}]
SeenBranch(fs, it) ==
    SeenReset(
        IF Len(fs.matched) < Len(fs.stashed)
        THEN (IF MoveMatched(fs, 1).exc # NoDomError THEN MoveMatched(fs, 1)
              ELSE MoveHere(MoveMatched(fs, 1), it))
        ELSE MoveHere(fs, it),
        it, IF fs.stashed = << >> THEN NoItem ELSE fs.stashed[1])

\* while (current !== null && current !== item) { seen.add(current);
\* stashed.push(current); current = current.next }; a walk longer than the
\* number of items ever created is inside a cycle and never ends
RECURSIVE SearchForward(_, _)
SearchForward(fs, it) ==
    IF fs.current = NoItem \/ fs.current = it THEN fs
    ELSE IF Len(fs.stashed) >= MaxItems THEN [fs EXCEPT !.exc = "endless loop"]
    ELSE SearchForward([fs EXCEPT !.seen = @ \cup {fs.current},
                                  !.stashed = Append(@, fs.current),
                                  !.current = fs.next[fs.current]], it)

Found(fs, it) ==
    IF fs.exc # NoDomError THEN fs
    ELSE [fs EXCEPT !.matched = Append(@, it), !.prevItem = it,
                    !.current = IF Len(fs.stashed) > 0 THEN fs.stashed[1]
                                ELSE fs.next[it]]
NotFound(fs, it) ==
    IF fs.exc # NoDomError THEN fs ELSE [fs EXCEPT !.prevItem = it]
AfterSearch(fs, it) ==
    IF fs.exc # NoDomError THEN fs
    ELSE IF fs.current = it
    THEN Found(IF Len(fs.stashed) > 0 THEN MoveHere(fs, it) ELSE fs, it)
    ELSE NotFound(MoveHere(fs, it), it)
SearchBranch(fs, it) ==
    AfterSearch(SearchForward([fs EXCEPT !.matched = << >>, !.stashed = << >>], it), it)

ExistingItem(fs, it) ==
    IF it = fs.current
    THEN [fs EXCEPT !.matched = Append(@, it), !.prevItem = it,
                    !.current = fs.next[it]]
    ELSE IF it \in fs.seen THEN SeenBranch(fs, it)
    ELSE SearchBranch(fs, it)

RECURSIVE ForLoop(_, _, _)
ForLoop(fs, newKeys, i) ==
    IF fs.exc # NoDomError \/ i > Len(newKeys) THEN fs
    ELSE ForLoop(IF KeyMapGet(fs, newKeys[i]) = NoItem THEN InsertNew(fs, newKeys[i])
                 ELSE ExistingItem(fs, KeyMapGet(fs, newKeys[i])),
                 newKeys, i + 1)

\* while (current !== null) { const next = current.next;
\* if (!newKeySet.has(current.key)) removeItem(current); current = next }
RECURSIVE RemoveRest(_, _, _)
RemoveRest(fs, newKeys, steps) ==
    IF fs.exc # NoDomError \/ fs.current = NoItem THEN fs
    ELSE IF steps > MaxItems THEN [fs EXCEPT !.exc = "endless loop"]
    ELSE RemoveRest(
           [(IF \A j \in 1..Len(newKeys) : newKeys[j] # fs.key[fs.current]
             THEN removeItem(fs, fs.current) ELSE fs)
               EXCEPT !.current = fs.next[fs.current]],
           newKeys, steps + 1)

ReconcileStart(fs) ==
    [fs EXCEPT !.current = fs.first, !.prevItem = NoItem, !.seen = {},
               !.matched = << >>, !.stashed = << >>]
reconcileFor(fs, newKeys) ==
    IF Len(newKeys) = 0 THEN RemoveAll(fs, toRemove(fs, newKeys), 1)
    ELSE RemoveRest(ForLoop(ReconcileStart(RemoveAll(fs, toRemove(fs, newKeys), 1)),
                            newKeys, 1),
                    newKeys, 0)


\* ------------------------------------------------------------------ state
VARIABLES
    \* ReactiveNode fields, one entry per node
    version, lastCleanEpoch, dirty, producerNode, producerLastReadVersion,
    producerIndexOfThis, nextProducerIndex, liveConsumerNode,
    liveConsumerIndexOfThis, value, error,
    \* signals.ts module variables
    activeConsumer, inNotificationPhase, epoch,
    \* Watcher.#signals
    signals,
    \* effect.ts: needsEnqueue, the queued processPending microtasks, and per
    \* effect() call its callback, its `cleanup` variable (0: undefined, g: the
    \* closure returned by the g-th returning run) and whether the caller
    \* holds its disposer
    needsEnqueue, microtasks, effBody, cleanup, disposer,
    \* the object graph the caller built
    graph,
    \* observation: per Computed the source versions its last run depends on
    \* and the sources it read itself; per effect the calls of its disposer,
    \* whether one of them has returned, the callback runs after that, and the
    \* calls of each cleanup closure (in the order they were returned); the last
    \* operation
    \* with its result, the number of runs of each function and of each
    \* notify callback during it
    seenAtRun, directAtRun, disposals, returned, lateRuns, cleanupCalls, lastOp,
    \* observation: the calls of each Watcher's notify callback since its last
    \* watch() call
    sinceWatch,
    \* index.ts, one x-for directive: state.keyMap (its items in insertion
    \* order), state.first, state.last, the key / prev / next of every ForItem,
    \* the elements after the anchor comment, the number of ForItems created,
    \* the ForItems whose cleanup was called, and (observation) the keys of
    \* the last array handed to reconcileFor with the way the call ended
    keyMap, first, last, itemKey, itemPrev, itemNext, childNodes, created, cleaned,
    lastFor

nodeVars == <<version, lastCleanEpoch, dirty, producerNode, producerLastReadVersion,
              producerIndexOfThis, nextProducerIndex, liveConsumerNode,
              liveConsumerIndexOfThis, value, error>>
coreVars == <<nodeVars, activeConsumer, inNotificationPhase, epoch, signals,
              needsEnqueue, microtasks, effBody, cleanup, disposer, graph,
              seenAtRun, directAtRun, disposals, returned, lateRuns, cleanupCalls,
              lastOp, sinceWatch>>
forVars == <<keyMap, first, last, itemKey, itemPrev, itemNext, childNodes, created,
             cleaned, lastFor>>
vars == <<coreVars, forVars>>

NoOp == [op |-> "init", node |-> Null, arg |-> 0, ret |-> 0, exc |-> NoError,
         ran |-> [n \in Nodes |-> 0], notified |-> [n \in Watchers |-> 0],
         inner |-> NoInner, burst |-> [n \in Watchers |-> 0],
         atStart |-> [e \in Effects |-> -1], missed |-> {}, coalesced |-> 0,
         leaked |-> FALSE]

\* the state at the start of a top-level call
Cur ==
    [version |-> version, lastCleanEpoch |-> lastCleanEpoch, dirty |-> dirty,
     producerNode |-> producerNode, producerLastReadVersion |-> producerLastReadVersion,
     producerIndexOfThis |-> producerIndexOfThis, nextProducerIndex |-> nextProducerIndex,
     liveConsumerNode |-> liveConsumerNode,
     liveConsumerIndexOfThis |-> liveConsumerIndexOfThis,
     value |-> value, error |-> error,
     activeConsumer |-> activeConsumer, inNotificationPhase |-> inNotificationPhase,
     epoch |-> epoch, signals |-> signals,
     needsEnqueue |-> needsEnqueue, microtasks |-> microtasks, effBody |-> effBody,
     cleanup |-> cleanup, disposer |-> disposer,
     seenAtRun |-> seenAtRun, directAtRun |-> directAtRun,
     disposals |-> disposals, returned |-> returned, lateRuns |-> lateRuns,
     cleanupCalls |-> cleanupCalls, sinceWatch |-> sinceWatch, graph |-> graph,
     exc |-> NoError, ret |-> 0, idx |-> 0, flag |-> FALSE,
     ran |-> [n \in Nodes |-> 0], notified |-> [n \in Watchers |-> 0],
     inner |-> NoInner, burst |-> [n \in Watchers |-> 0],
     atStart |-> [e \in Effects |-> -1], missed |-> {}, coalesced |-> 0,
         leaked |-> FALSE]

\* the state when the top-level call `op` has returned or thrown
Commit(r, op, node, arg) ==
    /\ version' = r.version
    /\ lastCleanEpoch' = r.lastCleanEpoch
    /\ dirty' = r.dirty
    /\ producerNode' = r.producerNode
    /\ producerLastReadVersion' = r.producerLastReadVersion
    /\ producerIndexOfThis' = r.producerIndexOfThis
    /\ nextProducerIndex' = r.nextProducerIndex
    /\ liveConsumerNode' = r.liveConsumerNode
    /\ liveConsumerIndexOfThis' = r.liveConsumerIndexOfThis
    /\ value' = r.value
    /\ error' = r.error
    /\ activeConsumer' = r.activeConsumer
    /\ inNotificationPhase' = r.inNotificationPhase
    /\ epoch' = r.epoch
    /\ signals' = r.signals
    /\ needsEnqueue' = r.needsEnqueue
    /\ microtasks' = r.microtasks
    /\ effBody' = r.effBody
    /\ cleanup' = r.cleanup
    /\ disposer' = r.disposer
    /\ seenAtRun' = r.seenAtRun
    /\ directAtRun' = r.directAtRun
    /\ disposals' = r.disposals
    /\ returned' = r.returned
    /\ lateRuns' = r.lateRuns
    /\ cleanupCalls' = r.cleanupCalls
    /\ sinceWatch' = r.sinceWatch
    /\ graph' = graph
    /\ UNCHANGED forVars
    /\ lastOp' = [op |-> op, node |-> node, arg |-> arg,
                  ret |-> IF Threw(r) THEN 0 ELSE r.ret, exc |-> r.exc,
                  ran |-> r.ran, notified |-> r.notified,
                  inner |-> r.inner, burst |-> r.burst, atStart |-> r.atStart,
                  missed |-> r.missed, coalesced |-> r.coalesced,
                  leaked |-> r.leaked]

\* new State(initial) / new Computed(fn) / new Watcher(notify)
InitValue(n) ==
    IF n \in Sources THEN 0
    ELSE IF n \in Computeds \cup Effects THEN UNSET
    ELSE undefinedValue

\* the state at the start of a reconcileFor call
CurFor ==
    [keyMap |-> keyMap, first |-> first, last |-> last, key |-> itemKey,
     prev |-> itemPrev, next |-> itemNext, childNodes |-> childNodes,
     created |-> created, cleaned |-> cleaned, exc |-> NoDomError,
     current |-> NoItem, prevItem |-> NoItem, seen |-> {}, matched |-> << >>,
     stashed |-> << >>]

\* the state when it has returned or thrown
CommitFor(r, newKeys) ==
    /\ keyMap' = r.keyMap
    /\ first' = r.first
    /\ last' = r.last
    /\ itemKey' = r.key
    /\ itemPrev' = r.prev
    /\ itemNext' = r.next
    /\ childNodes' = r.childNodes
    /\ created' = r.created
    /\ cleaned' = r.cleaned
    /\ lastFor' = [newKeys |-> newKeys, exc |-> r.exc]


\* processForDirective before the first run of its effect
InitForState ==
    /\ keyMap = << >>
    /\ first = NoItem
    /\ last = NoItem
    /\ itemKey = [it \in Items |-> 0]
    /\ itemPrev = [it \in Items |-> NoItem]
    /\ itemNext = [it \in Items |-> NoItem]
    /\ childNodes = << >>
    /\ created = 0
    /\ cleaned = {}
    /\ lastFor = [newKeys |-> << >>, exc |-> NoDomError]


InitNodes ==
    /\ version = [n \in Nodes |-> 0]
    /\ lastCleanEpoch = [n \in Nodes |-> 0]
    /\ dirty = [n \in Nodes |-> n \in Computeds \cup Effects]
    /\ producerNode = [n \in Nodes |-> << >>]
    /\ producerLastReadVersion = [n \in Nodes |-> << >>]
    /\ producerIndexOfThis = [n \in Nodes |-> << >>]
    /\ nextProducerIndex = [n \in Nodes |-> 0]
    /\ liveConsumerNode = [n \in Nodes |-> << >>]
    /\ liveConsumerIndexOfThis = [n \in Nodes |-> << >>]
    /\ value = [n \in Nodes |-> InitValue(n)]
    /\ error = [n \in Nodes |-> NoError]
    /\ activeConsumer = Null
    /\ inNotificationPhase = FALSE
    /\ epoch = 1
    /\ signals = [w \in Watchers |-> << >>]
    /\ needsEnqueue = TRUE
    /\ microtasks = 0
    /\ effBody = [e \in Effects |-> "none"]
    /\ cleanup = [e \in Effects |-> 0]
    /\ disposer = [e \in Effects |-> FALSE]
    /\ seenAtRun = [n \in Computeds \cup Effects |-> [s \in Sources |-> -1]]
    /\ directAtRun = [n \in Computeds \cup Effects |-> {}]
    /\ disposals = [e \in Effects |-> 0]
    /\ returned = [e \in Effects |-> FALSE]
    /\ lateRuns = [e \in Effects |-> 0]
    /\ cleanupCalls = [e \in Effects |-> << >>]
    /\ sinceWatch = [w \in Watchers |-> 0]
    /\ lastOp = NoOp
    /\ InitForState

\* ---------------------------------------------------------------- actions
\* s.set(v) from top-level code
Set(s, v) ==
    /\ epoch < MaxEpoch
    /\ Commit(StateSet(Cur, s, v), "set", s, v)

\* c.get() from top-level code
Read(n) == Commit(Get(Cur, n), "get", n, 0)

\* w.watch(n) on the caller's own Watcher
WatchOp(n) ==
    /\ nextProducerIndex["w"] < MaxWatch
    /\ Commit(Watch(Cur, "w", <<n>>), "watch", n, 0)

\* w.unwatch(n)
UnwatchOp(n) == Commit(Unwatch(Cur, "w", <<n>>), "unwatch", n, 0)

\* const dispose = effect(callback)
CreateEffect(e, body) ==
    /\ effBody[e] = "none"
    /\ \A i \in 1..MaxEffects : \A j \in 1..(i - 1) :
          EffectOrder[i] = e => effBody[EffectOrder[j]] # "none"
    /\ Commit(effect(Cur, e, body), "effect", e, 0)

RECURSIVE SumOver(_, _)
SumOver(f, S) ==
    IF S = {} THEN 0 ELSE LET x == CHOOSE y \in S : TRUE IN f[x] + SumOver(f, S \ {x})
TotalDisposals == SumOver(disposals, Effects)

\* dispose()
Dispose(e) ==
    /\ disposer[e]
    /\ TotalDisposals < MaxDispose
    /\ Commit(Disposer(Cur, e), "dispose", e, 0)

\* the microtask queue runs one queued processPending
Flush ==
    /\ microtasks > 0
    /\ Commit(processPending([Cur EXCEPT !.microtasks = @ - 1]), "flush", Null, 0)

\* ---------------------------------------------------------- specifications
InitCore == InitNodes /\ graph \in Scenarios
NextCore ==
    \/ \E s \in ScenarioSources(graph), v \in Values : Set(s, v)
    \/ \E n \in ScenarioComputeds(graph) : Read(n)
    \/ \E n \in ScenarioWatched(graph) : WatchOp(n)
    \/ \E n \in ScenarioWatched(graph) : UnwatchOp(n)
SpecCore == InitCore /\ [][NextCore]_vars

InitEff == InitNodes /\ graph = "eff"
NextEff ==
    \/ \E s \in ScenarioSources(graph), v \in Values : Set(s, v)
    \/ \E e \in Effects : \E body \in EffectChoices(e) : CreateEffect(e, body)
    \/ \E e \in Effects : Dispose(e)
    \/ Flush
SpecEff == InitEff /\ [][NextEff]_vars

\* the untrack test: Computeds and effects that read inside untrack(fn)
UntrackChoices(e) == IF e = "e2" THEN {"readU"} ELSE {"untracked"}
InitUntrack == InitNodes /\ graph = "untrack"
NextUntrack ==
    \/ \E s \in ScenarioSources(graph), v \in Values : Set(s, v)
    \/ \E n \in ScenarioComputeds(graph) : Read(n)
    \/ \E n \in ScenarioWatched(graph) : WatchOp(n)
    \/ \E e \in {"e1", "e2"} : \E body \in UntrackChoices(e) : CreateEffect(e, body)
    \/ Flush
SpecUntrack == InitUntrack /\ [][NextUntrack]_vars

\* effects whose callbacks write a State: u.set(a.get()), alone or after
\* reading u.  The host runs every queued microtask: the queue cannot stay
\* non-empty for ever without a step that shortens it.
WriteChoices(e) ==
    CASE e = "e1" -> {"relay", "readU"}
      [] e = "e2" -> {"selfw", "readU"}
      [] OTHER -> {}
Drain == microtasks > 0 /\ microtasks' = microtasks - 1
InitWrite == InitNodes /\ graph = "write"
NextWrite ==
    \/ \E s \in ScenarioSources(graph), v \in Values : Set(s, v)
    \/ \E e \in Effects : \E body \in WriteChoices(e) : CreateEffect(e, body)
    \/ \E e \in Effects : Dispose(e)
    \/ Flush
\* Computeds that recompute to an equal value (o = 2a + u when the change is
\* within its tolerance, s always), a Computed and effects that read only them
EqualChoices(e) ==
    CASE e = "e1" -> {"readO"}
      [] e = "e2" -> {"readS"}
      [] OTHER -> {}
InitEqual == InitNodes /\ graph = "equal"
NextEqual ==
    \/ \E s \in ScenarioSources(graph), v \in Values : Set(s, v)
    \/ \E n \in ScenarioComputeds(graph) : Read(n)
    \/ \E e \in Effects : \E body \in EqualChoices(e) : CreateEffect(e, body)
    \/ Flush
SpecEqual == InitEqual /\ [][NextEqual]_vars

\* a Computed that throws for as long as a is 1, whatever u is, and its consumer
InitThrow == InitNodes /\ graph = "throw"
SpecThrow == InitThrow /\ [][NextCore]_vars

\* an effect whose callback throws while a is 1, registered between two
\* effects that read a and u
BoomChoices(e) ==
    CASE e = "e1" -> {"readAU"}
      [] e = "e2" -> {"boom"}
      [] e = "e3" -> {"readAU"}
      [] OTHER -> {}
InitBoom == InitNodes /\ graph = "boom"
NextBoom ==
    \/ \E s \in ScenarioSources(graph), v \in Values : Set(s, v)
    \/ \E e \in Effects : \E body \in BoomChoices(e) : CreateEffect(e, body)
    \/ Flush
SpecBoom == InitBoom /\ [][NextBoom]_vars

\* an effect that reads the Computed v (v reads s, s reads a) only while a
\* is 0, and an effect that reads s
CascadeChoices(e) ==
    CASE e = "e1" -> {"pick"}
      [] e = "e2" -> {"readS"}
      [] OTHER -> {}
InitCascade == InitNodes /\ graph = "cascade"
NextCascade ==
    \/ \E s \in ScenarioSources(graph), v \in Values : Set(s, v)
    \/ \E n \in ScenarioComputeds(graph) : Read(n)
    \/ \E e \in Effects : \E body \in CascadeChoices(e) : CreateEffect(e, body)
    \/ \E e \in Effects : Dispose(e)
    \/ Flush
SpecCascade == InitCascade /\ [][NextCascade]_vars

\* a Watcher whose notify callback calls set() or get()
InitNotify == InitNodes /\ graph \in NotifyScenarios
NextNotify ==
    \/ \E s \in ScenarioSources(graph), v \in Values : Set(s, v)
    \/ \E n \in ScenarioComputeds(graph) : Read(n)
    \/ \E n \in ScenarioWatched(graph) : WatchOp(n)
SpecNotify == InitNotify /\ [][NextNotify]_vars

\* a Watcher whose notify callback calls w.watch(r) inside try / catch
InitActive == InitNodes /\ graph = "nwatch"
\* top-level calls stop once the Watcher's producer index has passed MaxWatch
NextActive ==
    \/ \E s \in ScenarioSources(graph), v \in Values :
          nextProducerIndex["w"] <= MaxWatch /\ Set(s, v)
    \/ \E n \in ScenarioComputeds(graph) :
          nextProducerIndex["w"] <= MaxWatch /\ Read(n)
    \/ \E n \in ScenarioWatched(graph) : WatchOp(n)
SpecActive == InitActive /\ [][NextActive]_vars

\* the arrays with distinct keys
RECURSIVE KeyArraysOfLen(_)
KeyArraysOfLen(n) ==
    IF n = 0 THEN {<< >>}
    ELSE {Append(s, k) : s \in KeyArraysOfLen(n - 1), k \in Keys}
KeyArrays ==
    {s \in UNION {KeyArraysOfLen(n) : n \in 0..MaxKeys} :
        \A i, j \in 1..Len(s) : i # j => s[i] # s[j]}

NewCount(newKeys) ==
    Cardinality({j \in 1..Len(newKeys) :
                   \A i \in 1..Len(keyMap) : itemKey[keyMap[i]] # newKeys[j]})

\* the x-for effect runs reconcileFor(items); an error that escaped it ends
\* the scenario
Reconcile(newKeys) ==
    /\ lastFor.exc = NoDomError
    /\ created + NewCount(newKeys) <= MaxItems
    /\ CommitFor(reconcileFor(CurFor, newKeys), newKeys)
    /\ UNCHANGED coreVars


\* one keyed x-for directive whose array expression yields arrays with distinct keys
InitFor == InitNodes /\ graph = "xfor"
NextFor == \E newKeys \in KeyArrays : Reconcile(newKeys)
SpecFor == InitFor /\ [][NextFor]_vars

\* the same graphs with w.unwatch(signal) as well
NextEpoch ==
    \/ NextNotify
    \/ \E n \in ScenarioWatched(graph) : UnwatchOp(n)
SpecEpoch == InitNotify /\ [][NextEpoch]_vars

SpecWrite == InitWrite /\ [][NextWrite]_vars /\ WF_microtasks(Drain)


\* the current source values (and effect callbacks)
SourceVals == [s \in Sources |-> value[s]] @@ [body |-> effBody]
Expected(n) == Ideal(n, SourceVals, {})

\* the call recorded in `call` returned, or threw, what x says
Yields(x, call) ==
    IF x.ok THEN call.exc = NoError /\ call.ret = x.v
    ELSE call.exc.kind = x.kind

\* ------------------------------------------------------------------ properties
\* C1: every top-level Computed.get() returns what the Computed's function
\* yields on the current source values (or throws the kind of error it
\* throws on them), whatever writes, reads, watches and unwatches came before.
C1_GlitchFree ==
    (lastOp.op = "get" /\ lastOp.node \in Computeds) =>
        Yields(Expected(lastOp.node), lastOp)

C1_Witness ==
    /\ graph = "diamond" /\ lastOp.op = "get" /\ lastOp.node = "d"
    /\ value["a"] = 1 /\ lastOp.ret = 4 /\ lastOp.exc = NoError
    /\ version["d"] >= 2 /\ liveConsumerNode["d"] # << >>

\* the sources n's last run depends on are as that run saw them
DepsUnchanged(n) ==
    /\ value[n] # UNSET
    /\ \A s \in Sources : seenAtRun[n][s] >= 0 => version[s] = seenAtRun[n][s]
\* a source that n's last run read itself has changed since
DirectChanged(n) == \E s \in directAtRun[n] : version[s] # seenAtRun[n][s]

\* C2: in the diamond (b and c read a, d reads b and c) a read of d that
\* follows exactly one value-changing write to a runs d's function exactly
\* once (and b's and c's at most once); a read of d with a unchanged since
\* d's last run, whatever was written to u, runs it zero times.
C2_Diamond ==
    [][(graph = "diamond" /\ lastOp'.op = "get" /\ lastOp'.node = "d"
        /\ value["d"] # UNSET) =>
          /\ version["a"] = seenAtRun["d"]["a"] + 1 =>
                 /\ lastOp'.ran["d"] = 1
                 /\ lastOp'.ran["b"] <= 1 /\ lastOp'.ran["c"] <= 1
          /\ version["a"] = seenAtRun["d"]["a"] =>
                 \A n \in {"b", "c", "d"} : lastOp'.ran[n] = 0]_vars
C2_Witness ==
    /\ graph = "diamond" /\ lastOp.op = "get" /\ lastOp.node = "d"
    /\ lastOp.ran["d"] = 1 /\ lastOp.ran["b"] = 1 /\ lastOp.ran["c"] = 1
    /\ version["a"] = 1 /\ version["u"] >= 1 /\ version["d"] = 2

\* C3: set(v) with v equal, under the State's equality, to the current value
\* changes nothing: value, version and epoch stay, no consumer is marked dirty,
\* no watcher is notified, no flush is scheduled and nothing is run.
C3_EqualSetNoop ==
    [][(lastOp'.op = "set" /\ Equal(lastOp'.node, value[lastOp'.node], lastOp'.arg)) =>
          /\ nodeVars' = nodeVars
          /\ epoch' = epoch
          /\ microtasks' = microtasks /\ needsEnqueue' = needsEnqueue
          /\ \A n \in Computeds \cup Effects : lastOp'.ran[n] = 0
          /\ \A w \in Watchers : lastOp'.notified[w] = 0
          /\ lastOp'.exc = NoError]_vars
C3_Witness ==
    /\ graph = "eff" /\ lastOp.op = "set" /\ lastOp.node = "g"
    /\ lastOp.arg = 1 /\ value["g"] = 0
    /\ liveConsumerNode["g"] # << >> /\ ~dirty["e3"] /\ microtasks = 0

\* C4: a top-level get() runs any Computed's function at most once; it runs
\* the function of the Computed read zero times when no source the last run
\* depended on has changed, and exactly once when the Computed was never
\* computed or a source its last run read has changed.
C4_Memoization ==
    [][\A n \in Computeds : (lastOp'.op = "get" /\ lastOp'.node = n) =>
          /\ \A m \in Computeds : lastOp'.ran[m] <= 1
          /\ DepsUnchanged(n) => \A m \in Computeds : lastOp'.ran[m] = 0
          /\ (value[n] = UNSET \/ DirectChanged(n)) => lastOp'.ran[n] = 1]_vars
C4_Witness ==
    /\ graph = "cond" /\ lastOp.op = "get" /\ lastOp.node = "k"
    /\ lastOp.ran["k"] = 0 /\ value["k"] >= 0
    /\ version["k"] >= 2 /\ lastCleanEpoch["k"] = epoch
    /\ \E s \in {"a", "u"} : seenAtRun["k"][s] = -1 /\ version[s] >= 1

\* C5: every get() of a Computed whose function reads itself, directly (y)
\* or through another Computed (p, q), returns by throwing a cycle error.
C5_CycleThrows ==
    (graph = "cycle" /\ lastOp.op = "get") => lastOp.exc.kind = "Cycle"
C5_Witness ==
    /\ graph = "cycle" /\ lastOp.op = "get" /\ lastOp.node = "p"
    /\ lastOp.exc.kind = "Cycle" /\ lastOp.ran["p"] = 1 /\ lastOp.ran["q"] = 1

\* C6: a Computed whose last run threw re-throws that same error on get()
\* without running its function while the sources that run depended on are
\* unchanged; once one of them has changed, get() runs the function once and
\* yields what it now yields, a throw being a new error.
C6_ErrorCached ==
    [][\A n \in {"t", "z"} :
          (graph = "err" /\ lastOp'.op = "get" /\ lastOp'.node = n
           /\ value[n] = ERRORED) =>
             IF DepsUnchanged(n)
             THEN /\ lastOp'.exc = error[n]
                  /\ \A m \in Computeds : lastOp'.ran[m] = 0
             ELSE /\ lastOp'.ran[n] = 1
                  /\ Yields(Expected(n), lastOp')
                  /\ lastOp'.exc # error[n]]_vars
C6_Witness ==
    /\ graph = "err" /\ lastOp.op = "get" /\ lastOp.node = "z"
    /\ lastOp.exc.kind = "Error" /\ lastOp.exc = error["z"] /\ lastOp.exc.node = "t"
    /\ lastOp.ran["z"] = 0 /\ lastOp.ran["t"] = 0 /\ version["u"] >= 1

\* an effect whose disposer was never called
Undisposed(e) == effBody[e] # "none" /\ disposer[e] /\ disposals[e] = 0

\* C7: a set() runs no effect; it leaves a flush scheduled when an undisposed
\* effect has read a source that changed; and the flush runs every such
\* effect exactly once.
C7_Batching ==
    [][/\ lastOp'.op = "set" =>
            /\ \A e \in Effects : lastOp'.ran[e] = 0
            /\ (\E e \in Effects : Undisposed(e)' /\ DirectChanged(e)') => microtasks' >= 1
       /\ lastOp'.op = "flush" =>
            \A e \in Effects : (Undisposed(e) /\ DirectChanged(e)) => lastOp'.ran[e] = 1]_vars

\* C8: the callback of an effect is never invoked after a call of its
\* disposer has returned.
C8_NoRunAfterDispose == \A e \in Effects : lateRuns[e] = 0

\* C9: no cleanup function is ever invoked twice, and once the disposer of an
\* effect has been called the cleanup function its last run returned has been
\* invoked exactly once.
C9_CleanupOnce ==
    \A e \in Effects :
        /\ \A g \in 1..Len(cleanupCalls[e]) : cleanupCalls[e][g] <= 1
        /\ (disposals[e] > 0 /\ cleanup[e] # 0) => cleanupCalls[e][cleanup[e]] = 1

\* C10: a flush does not re-run an undisposed effect when only sources its
\* latest run did not read were written, and re-runs it (once) when a source
\* its latest run read was written; likewise a get() of a Computed.
C10_DynamicDeps ==
    [][/\ lastOp'.op = "flush" =>
            \A e \in Effects : Undisposed(e) =>
                /\ DepsUnchanged(e) => lastOp'.ran[e] = 0
                /\ DirectChanged(e) => lastOp'.ran[e] >= 1
       /\ \A n \in Computeds : (lastOp'.op = "get" /\ lastOp'.node = n) =>
                /\ DepsUnchanged(n) => lastOp'.ran[n] = 0
                /\ DirectChanged(n) => lastOp'.ran[n] >= 1]_vars

\* C11: a read inside untrack(fn) leaves no entry for the node read in the
\* producer list of the consumer that called untrack and no entry for that
\* consumer in the node's live-consumer list; a get() of the Computed, or a
\* flush, does not run a function whose tracked sources are unchanged,
\* whatever was written to the sources it read inside untrack.
UntrackedRead(n) ==
    CASE n = "h" -> "u"
      [] n = "j" -> "h"
      [] n \in Effects -> IF effBody[n] = "untracked" THEN "u" ELSE Null
      [] OTHER -> Null
C11_Untrack ==
    [][/\ \A n \in {"h", "j"} \cup Effects : UntrackedRead(n)' # Null =>
               /\ ~InSeq(UntrackedRead(n)', producerNode'[n])
               /\ ~InSeq(n, liveConsumerNode'[UntrackedRead(n)'])
       /\ \A n \in {"h", "j"} : (lastOp'.op = "get" /\ lastOp'.node = n) =>
               (DepsUnchanged(n) => lastOp'.ran[n] = 0)
       /\ lastOp'.op \in {"flush", "set"} =>
               \A e \in Effects : (effBody[e] = "untracked" /\ DepsUnchanged(e)) =>
                   lastOp'.ran[e] = 0]_vars
C11_Witness ==
    /\ graph = "untrack" /\ lastOp.op = "flush" /\ lastOp.exc = NoError
    /\ effBody["e1"] = "untracked" /\ lastOp.ran["e1"] = 0 /\ lastOp.ran["e2"] = 1
    /\ version["u"] >= 1 /\ seenAtRun["e1"]["u"] = -1 /\ seenAtRun["e1"]["a"] = version["a"]
    /\ ~dirty["e1"] /\ liveConsumerNode["a"] # << >>
    /\ value["h"] # UNSET /\ seenAtRun["h"]["u"] = -1

\* C12: when effect(callback) returns, the callback has run exactly once
\* during the call, the effect's Computed is in the shared Watcher's producer
\* list and signal list with the Watcher among its live consumers, and the
\* effect is a live consumer of every source the callback read.
Subscribed(e, s) ==
    \E i \in 1..Len(producerNode[e]) :
        /\ producerNode[e][i] = s
        /\ ArrGetN(liveConsumerNode[s], ArrGetI(producerIndexOfThis[e], i - 1)) = e
C12_EffectImmediate ==
    [][\A e \in Effects :
          (lastOp'.op = "effect" /\ lastOp'.node = e /\ lastOp'.exc = NoError) =>
             /\ lastOp'.ran[e] = 1
             /\ \A m \in Effects \ {e} : lastOp'.ran[m] = 0
             /\ disposer'[e]
             /\ InSeq(e, signals'["W"])
             /\ Subscribed("W", e)'
             /\ directAtRun'[e] # {}
             /\ \A s \in directAtRun'[e] : Subscribed(e, s)']_vars
C12_Witness ==
    /\ lastOp.op = "effect" /\ lastOp.node = "e2" /\ lastOp.exc = NoError
    /\ effBody["e2"] = "unless" /\ value["a"] = 0 /\ version["a"] >= 1
    /\ lastOp.ran["e2"] = 1 /\ directAtRun["e2"] = {"a", "u"}
    /\ Subscribed("e2", "u") /\ Subscribed("W", "e2") /\ microtasks = 1

\* the latest run of effect e read a State whose version has changed since
\* that read
Stale(e) ==
    \E i \in 1..Len(producerNode[e]) :
        /\ producerNode[e][i] \in Sources
        /\ producerLastReadVersion[e][i] # version[producerNode[e][i]]

\* C13: whenever an undisposed effect has read a State that was written
\* (with a different value) after that read, by top-level code or by an effect
\* callback, the effect is eventually run again and reads the State as
\* written (or is disposed).
C13_EventuallyReruns ==
    \A e \in {"e1", "e2"} :
        (Undisposed(e) /\ Stale(e)) ~> ~(Undisposed(e) /\ Stale(e))

\* C14: a callback runs only inside a flush taken from the microtask queue,
\* except for the one first run made by the effect() call that creates the
\* effect: set(), dispose() and effect() never re-run an effect.
C14_NoSyncRerun ==
    [][\A e \in Effects : lastOp'.ran[e] > 0 =>
          \/ lastOp'.op = "flush" /\ microtasks > 0
          \/ /\ lastOp'.op = "effect" /\ lastOp'.node = e
             /\ lastOp'.ran[e] = 1 /\ effBody[e] = "none"]_vars
C14_Witness ==
    /\ graph = "write" /\ lastOp.op = "effect" /\ lastOp.node = "e2"
    /\ effBody["e1"] = "readU" /\ effBody["e2"] = "selfw" /\ disposals["e1"] = 0
    /\ version["u"] = 2 /\ value["u"] = 0
    /\ dirty["e1"] /\ lastOp.ran["e1"] = 0 /\ lastOp.ran["e2"] = 1
    /\ lastOp.notified["W"] = 1 /\ microtasks = 1

\* C15: a set() made by a notify callback throws the write-in-notify error
\* and leaves every field of the graph (values, versions, epoch, dirty flags
\* among them) as it was when the call was made.
C15_WriteInNotify ==
    lastOp.inner.op = "set" =>
        lastOp.inner.exc = WriteInNotify /\ ~lastOp.inner.changed
C15_Witness ==
    /\ graph = "nset" /\ lastOp.op = "set" /\ lastOp.node = "a" /\ lastOp.exc = NoError
    /\ lastOp.inner.op = "set" /\ lastOp.inner.exc = WriteInNotify
    /\ value["u"] = 0 /\ version["u"] = 0 /\ dirty["r"] /\ dirty["w"]
    /\ lastOp.notified["w"] = 1 /\ ~inNotificationPhase

\* C16: a get() of a State or of a Computed made by a notify callback throws
\* the read-in-notify error, with or without an active consumer.
C16_ReadInNotify ==
    lastOp.inner.op = "get" => lastOp.inner.exc = ReadInNotify

\* C17: a get() made by a notify callback that ended with the read-in-notify
\* error changed no field of the graph, and a later top-level get() of a
\* Computed yields what its function yields on the current source values.
C17_RejectedReadHarmless ==
    /\ (lastOp.inner.op = "get" /\ lastOp.inner.exc = ReadInNotify) =>
           ~lastOp.inner.changed
    /\ (NotifyCall(graph) = "get" /\ lastOp.op = "get" /\ lastOp.inner.op = "none"
        /\ (lastOp.node = "r" \/ (lastOp.node = "i" /\ NotifyCatches(graph)))) =>
           Yields(Expected(lastOp.node), lastOp)

\* C18: when an operation re-runs an effect that held a cleanup function, the
\* callback is entered with that function invoked exactly once, and it has
\* been invoked exactly once when the operation ends; an operation invokes a
\* cleanup function only if it re-runs the effect after a source of its last
\* run changed, or calls the effect's disposer.
C18_CleanupBeforeRerun ==
    [][\A e \in Effects :
          /\ (lastOp'.ran[e] >= 1 /\ lastOp'.op # "effect" /\ cleanup[e] # 0) =>
                 /\ lastOp'.atStart[e] = 1
                 /\ cleanupCalls'[e][cleanup[e]] = 1
          /\ \A g \in 1..Len(cleanupCalls[e]) :
                 cleanupCalls'[e][g] > cleanupCalls[e][g] =>
                     \/ lastOp'.ran[e] >= 1 /\ ~DepsUnchanged(e)
                     \/ disposals'[e] > disposals[e]]_vars

\* the one Computed the Computed or effect n reads
OnlyProducer(n) ==
    CASE n = "v" -> "s"
      [] n \in Effects /\ effBody[n] = "readO" -> "o"
      [] n \in Effects /\ effBody[n] = "readS" -> "s"
      [] OTHER -> Null

\* C19: a Computed whose function ran and gave a value equal, under its
\* equality predicate, to its previous value keeps the previous value and its
\* version; a get() of a Computed, or a flush, that leaves the only producer
\* of a Computed or effect at the version its last run read leaves it clean
\* without running its function, even though the write had marked it dirty.
C19_EqualRecompute ==
    [][/\ \A n \in {"o", "s"} :
            (lastOp'.ran[n] >= 1 /\ value[n] >= 0 /\ Expected(n)'.ok
             /\ Equal(n, value[n], Expected(n)'.v)) =>
                value'[n] = value[n] /\ version'[n] = version[n]
       /\ \A n \in {"v"} \cup Effects :
            (/\ OnlyProducer(n) # Null /\ value[n] # UNSET
             /\ \/ lastOp'.op = "get" /\ lastOp'.node = n
                \/ lastOp'.op = "flush" /\ dirty[n] /\ Undisposed(n)
             /\ version'[OnlyProducer(n)] = ArrGetI(producerLastReadVersion[n], 0)) =>
                lastOp'.ran[n] = 0 /\ ~dirty'[n] /\ version'[n] = version[n]]_vars
C19_Witness ==
    /\ graph = "equal" /\ lastOp.op = "flush" /\ lastOp.exc = NoError
    /\ effBody["e1"] = "readO" /\ lastOp.ran["e1"] = 0 /\ lastOp.ran["o"] = 1
    /\ value["a"] = 1 /\ value["u"] = 1 /\ value["o"] = 2 /\ Expected("o").v = 3
    /\ version["o"] = 2 /\ ~dirty["e1"] /\ ~dirty["o"] /\ lastCleanEpoch["e1"] = epoch

\* C20: a Watcher's notify callback has been invoked once since the
\* Watcher's last watch() call if the Watcher is dirty and not at all if it
\* is clean, and at no moment of an operation had it been invoked more than
\* once since the last watch() call, whatever was written and however many
\* watched nodes are dirty.
C20_NotifyOnce ==
    \A w \in Watchers :
        /\ lastOp.burst[w] <= 1
        /\ sinceWatch[w] = (IF dirty[w] THEN 1 ELSE 0)
C20_Witness ==
    /\ graph = "eff" /\ lastOp.op = "set" /\ lastOp.node = "u"
    /\ lastOp.notified["W"] = 0 /\ dirty["W"] /\ sinceWatch["W"] = 1
    /\ dirty["e1"] /\ dirty["e4"] /\ version["a"] >= 1 /\ version["u"] >= 1
    /\ Len(liveConsumerNode["a"]) >= 2 /\ liveConsumerNode["u"] # << >>

\* C21: x-for keyed reconciliation.  After every reconcileFor call with an
\* array of distinct keys, the elements after the anchor are those of the
\* array's keys in the array's order (so the elements of removed keys are
\* gone), and every key rendered before and after the call is rendered by the
\* element it had before.
RenderedKeys == [j \in 1..Len(childNodes) |-> itemKey[childNodes[j]]]
C21_KeyedReconcile ==
    [][/\ lastFor'.exc = NoDomError
       /\ RenderedKeys' = lastFor'.newKeys
       /\ \A j \in 1..Len(childNodes) : \A i \in 1..Len(childNodes') :
             itemKey[childNodes[j]] = itemKey'[childNodes'[i]]
                => childNodes[j] = childNodes'[i]]_vars

\* C22: push propagation completes before the write returns.  At the return
\* of every value-changing State.set, made by top-level code or by a
\* computation or effect body, every node reachable from the written State
\* through liveConsumerNode entries is dirty.
C22_PushComplete == lastOp.missed = {}

\* C23: coalescing.  At most one processPending microtask is queued and not
\* yet started, whatever writes, effect() calls and disposer calls were made
\* since it was queued.
C23_Coalescing == microtasks <= 1
\* a write whose notification reached the scheduler's callback while a
\* microtask was queued; and the same after an effect() call and a disposal
C23_Witness ==
    /\ lastOp.op = "set" /\ lastOp.coalesced = 1 /\ microtasks = 1
    /\ \E e \in Effects : disposals[e] > 0

\* effect e holds State s in its producer list: its latest run read s
ReadInLastRun(e, s) == \E i \in 1..Len(producerNode[e]) : producerNode[e][i] = s

\* C24: the scheduler is re-armed by a flush.  After every flush the
\* scheduler Watcher is not dirty and needsEnqueue is false only while a
\* microtask is queued; the next value-changing write to a State read by the
\* latest run of an undisposed effect leaves a microtask queued; and a flush
\* in which an effect ran and was made dirty again leaves a microtask queued.
C24_Rearmed ==
    [][/\ lastOp'.op = "flush" =>
            /\ ~dirty'["W"]
            /\ needsEnqueue' <=> microtasks' = 0
            /\ \A e \in Effects : (lastOp'.ran[e] >= 1 /\ dirty'[e]) => microtasks' >= 1
       /\ (lastOp.op = "flush" /\ lastOp'.op = "set") =>
            \A e \in Effects :
               (/\ Undisposed(e) /\ ReadInLastRun(e, lastOp'.node)
                /\ version'[lastOp'.node] # version[lastOp'.node]) => microtasks' >= 1]_vars

\* C25: after every completed public operation the lists producerNode,
\* producerLastReadVersion and producerIndexOfThis of every State, Computed
\* and Watcher have the same length.
C25_ParallelLists ==
    \A n \in Nodes :
        /\ Len(producerNode[n]) = Len(producerLastReadVersion[n])
        /\ Len(producerNode[n]) = Len(producerIndexOfThis[n])

\* n is in p's live-consumer list; p is in n's producer list; n is live
IsLiveConsumerOf(n, p) == \E j \in 1..Len(liveConsumerNode[p]) : liveConsumerNode[p][j] = n
IsProducerOf(p, n) == \E i \in 1..Len(producerNode[n]) : producerNode[n][i] = p
IsLive(n) == n \in Watchers \/ Len(liveConsumerNode[n]) > 0

\* the State p was read by the body of Computed n in its latest run (recorded
\* when the run ended); for other pairs, p is in n's producer list
ReadInRun(n, p) ==
    IF n \in Computeds /\ p \in Sources THEN p \in directAtRun[n] /\ IsProducerOf(p, n)
    ELSE IsProducerOf(p, n)

\* C26: after every completed operation, n is in the live-consumer list of p
\* exactly when n is live (a Watcher, or a node with at least one live
\* consumer) and n read p in its most recent computation (for a Watcher: p
\* is in the list kept by its watch / unwatch calls); a State that a
\* Computed's latest run read is in that Computed's producer list.
C26_LiveConsumers ==
    \A n \in Nodes : \A p \in Nodes :
        /\ IsLiveConsumerOf(n, p) <=> (IsLive(n) /\ ReadInRun(n, p))
        /\ (n \in Computeds /\ p \in directAtRun[n]) => IsProducerOf(p, n)
\* the diamond after w.unwatch(d): d still holds b and c, b and c still hold
\* a, and no live-consumer list holds d, b or c
C26_Witness ==
    /\ graph = "diamond" /\ lastOp.op = "unwatch" /\ lastOp.exc = NoError
    /\ IsProducerOf("b", "d") /\ IsProducerOf("c", "d") /\ IsProducerOf("a", "b")
    /\ \A p \in Nodes : liveConsumerNode[p] = << >>
    /\ signals["w"] = << >>

\* C27: adjacency indices stay consistent.  After every operation, for every
\* live consumer n and every position i of its producer list,
\* producerNode[i].liveConsumerNode[producerIndexOfThis[i]] is n and the
\* liveConsumerIndexOfThis entry at that position is i.
C27_AdjacencyIndices ==
    \A n \in Nodes : IsLive(n) =>
        \A i \in 0..(Len(producerNode[n]) - 1) :
            /\ ArrGetN(producerNode[n], i) \in Nodes
            /\ ArrGetN(liveConsumerNode[ArrGetN(producerNode[n], i)],
                       ArrGetI(producerIndexOfThis[n], i)) = n
            /\ ArrGetI(liveConsumerIndexOfThis[ArrGetN(producerNode[n], i)],
                       ArrGetI(producerIndexOfThis[n], i)) = i

\* the function of Computed n, run now, gives a value equal (under n's
\* equality) to the value n held before the step; the function effect()
\* builds returns undefined whenever it returns
EqualResult(n) ==
    /\ value[n] \notin {UNSET, ERRORED, COMPUTING}
    /\ IF n \in Effects THEN value'[n] = undefinedValue
       ELSE Expected(n)'.ok /\ Equal(n, value[n], Expected(n)'.v)

\* C28: versions never decrease and change only with the value.  In every
\* step: a top-level set() raises the version of its State by one when the
\* new value is not equal to the current one and by nothing otherwise, and no
\* other State's version changes; a Computed whose function did not run keeps
\* its version; a Computed whose function ran once gains one version when the
\* result is not equal to its previous value (or there was none, or either is
\* an error) and none when it is equal.
C28_Versions ==
    [][/\ \A n \in Nodes : version'[n] >= version[n]
       /\ \A s \in Sources :
            version'[s] = version[s] +
                (IF lastOp'.op = "set" /\ lastOp'.node = s
                    /\ ~Equal(s, value[s], lastOp'.arg) THEN 1 ELSE 0)
       /\ \A n \in Watchers : version'[n] = version[n]
       /\ \A n \in Computeds \cup Effects :
            /\ lastOp'.ran[n] = 0 => version'[n] = version[n]
            /\ lastOp'.ran[n] = 1 =>
                  version'[n] = version[n] + (IF EqualResult(n) THEN 0 ELSE 1)
            /\ lastOp'.ran[n] <= 1]_vars
\* after one write to a and one to u, o has been recomputed to a value equal
\* to the one it keeps, at its second version
C28_Witness ==
    /\ graph = "equal" /\ lastOp.op = "get" /\ lastOp.node = "o" /\ lastOp.ran["o"] = 1
    /\ version["o"] = 2 /\ version["a"] = 1 /\ version["u"] = 1
    /\ value["o"] # Expected("o").v

\* C29: the epoch never decreases; it advances by exactly one for each
\* State.set that changes the value and by nothing otherwise.  In every step
\* the epoch advances by the number of versions the States gained; a
\* top-level set() advances it by one when its argument is not equal to the
\* current value and not at all when it is equal, whatever a set() attempted
\* by its notification callback was; watch() and unwatch() leave it
\* unchanged, and so does a get() (recomputations included) in which no State
\* was written.
C29_Epoch ==
    [][/\ epoch' >= epoch
       /\ epoch' - epoch = SumOver(version, Sources)' - SumOver(version, Sources)
       /\ lastOp'.op = "set" =>
             epoch' = epoch + (IF Equal(lastOp'.node, value[lastOp'.node], lastOp'.arg)
                               THEN 0 ELSE 1)
       /\ lastOp'.op \in {"watch", "unwatch"} => epoch' = epoch
       /\ (lastOp'.op = "get" /\ \A s \in Sources : value'[s] = value[s]) => epoch' = epoch]_vars
\* a write to a whose notification callback tried u.set(1) and was rejected:
\* one epoch gained, u unchanged
C29_Witness ==
    /\ graph = "nset" /\ lastOp.op = "set" /\ lastOp.node = "a"
    /\ lastOp.inner.op = "set" /\ lastOp.inner.exc = WriteInNotify
    /\ epoch = 2 /\ value["u"] = 0 /\ version["u"] = 0 /\ version["a"] = 1

\* C30: when the function of a Computed throws, the node's value becomes
\* ERRORED, the thrown object is cached and the version gains one, also when
\* the previous run threw as well; and a get() of the consumer zz, which read
\* tt, while tt holds an error that zz has not seen runs zz's function once
\* and ends with the object tt threw last, which zz caches in turn.
C30_ThrowBumps ==
    [][/\ \A n \in {"tt", "zz"} :
            (/\ lastOp'.ran[n] >= 1
             /\ \A s \in Sources : value'[s] = value[s]
             /\ ~Expected(n).ok) =>
               /\ value'[n] = ERRORED
               /\ error'[n] = Err("Error", "tt", epoch')
               /\ version'[n] = version[n] + 1
               /\ lastOp'.ran[n] = 1
       /\ (/\ lastOp'.op = "get" /\ lastOp'.node = "zz"
           /\ ReadInLastRun("zz", "tt")
           /\ value'["tt"] = ERRORED
           /\ (value["zz"] # ERRORED \/ error["zz"] # error'["tt"])) =>
              /\ lastOp'.ran["zz"] = 1
              /\ lastOp'.exc = error'["tt"]
              /\ error'["zz"] = error'["tt"]]_vars
\* tt threw on two consecutive recomputations (a = 1, then u written) and
\* zz, which had cached the first error, was recomputed and holds the second
C30_Witness ==
    /\ graph = "throw" /\ lastOp.op = "get" /\ lastOp.node = "zz"
    /\ lastOp.ran["tt"] = 1 /\ lastOp.ran["zz"] = 1
    /\ value["a"] = 1 /\ version["tt"] = 3 /\ version["zz"] = 3
    /\ value["tt"] = ERRORED /\ error["tt"] = Err("Error", "tt", 3)
    /\ error["zz"] = error["tt"] /\ lastOp.exc = error["tt"]

\* C31: a Computed whose recomputation changes its value marks dirty each of
\* its live consumers: after every operation in which a Computed that held a
\* value or an error was recomputed to another one, each of its live
\* consumers is dirty or was itself recomputed later in that operation.
C31_RecomputePush ==
    [][\A c \in Computeds :
          (/\ lastOp'.ran[c] >= 1
           /\ value[c] # UNSET
           /\ value'[c] # value[c]) =>
             \A n \in Nodes :
                IsLiveConsumerOf(n, c)' => (dirty'[n] \/ lastOp'.ran[n] >= 1)]_vars

\* C32: watch() is idempotent on a node the Watcher already tracks: after
\* every operation the caller's Watcher holds each node at most once in its
\* producer list and at most once in that node's live-consumer list.
C32_WatchIdempotent ==
    \A n \in Nodes :
       /\ Cardinality({i \in 1..Len(producerNode["w"]) : producerNode["w"][i] = n}) <= 1
       /\ Cardinality({j \in 1..Len(liveConsumerNode[n]) : liveConsumerNode[n][j] = "w"}) <= 1

\* C33: what an effect's callback throws during a flush comes out of the
\* flush.  In every flush in which a pending effect ran and threw, the flush
\* ends with the object that effect threw, every effect before it in the
\* pending list ran once, and every effect after it was not run and is still
\* dirty.
C33_FlushThrows ==
    [][lastOp'.op = "flush" =>
         \A i \in 1..Len(GetPending(Cur, "W")) :
            (/\ lastOp'.ran[GetPending(Cur, "W")[i]] >= 1
             /\ value'[GetPending(Cur, "W")[i]] = ERRORED) =>
               /\ lastOp'.exc = error'[GetPending(Cur, "W")[i]]
               /\ lastOp'.exc = Err("Error", GetPending(Cur, "W")[i], epoch)
               /\ \A j \in 1..Len(GetPending(Cur, "W")) :
                     /\ j < i => lastOp'.ran[GetPending(Cur, "W")[j]] = 1
                     /\ j > i => /\ lastOp'.ran[GetPending(Cur, "W")[j]] = 0
                                 /\ dirty'[GetPending(Cur, "W")[j]]]_vars
\* the flush after a.set(1): the first effect ran, the second threw, the
\* third was left out
C33_Witness ==
    /\ graph = "boom" /\ lastOp.op = "flush" /\ lastOp.exc.kind = "Error"
    /\ lastOp.exc.node = "e2" /\ value["e2"] = ERRORED
    /\ lastOp.ran = [n \in Nodes |-> IF n \in {"e1", "e2"} THEN 1 ELSE 0]
    /\ effBody["e3"] = "readAU" /\ dirty["e3"] /\ disposer["e3"]

\* C34: an error stays at the Computed that raised it and reaches whoever
\* reads it.  A step in which tt or zz ran and holds an error afterwards
\* changes no value and no version of a State; every get() of tt or zz that
\* leaves the node with an error ends with the node's cached error; and
\* after every get() of zz, which reads tt without catching, that finds tt
\* failed, zz holds and throws the very object tt threw.
C34_ErrorContained ==
    [][/\ \A n \in {"tt", "zz"} :
            (lastOp'.ran[n] >= 1 /\ value'[n] = ERRORED) =>
               \A s \in Sources : value'[s] = value[s] /\ version'[s] = version[s]
       /\ \A n \in {"tt", "zz"} :
            (lastOp'.op = "get" /\ lastOp'.node = n /\ value'[n] = ERRORED) =>
               /\ lastOp'.exc = error'[n]
               /\ lastOp'.exc.kind = "Error" /\ lastOp'.exc.node = "tt"
       /\ (lastOp'.op = "get" /\ lastOp'.node = "zz" /\ value'["tt"] = ERRORED) =>
               /\ value'["zz"] = ERRORED
               /\ error'["zz"] = error'["tt"]]_vars
\* a.set(1), then zz.get(): tt threw, zz failed with tt's error, a and u
\* are as the write left them
C34_Witness ==
    /\ graph = "throw" /\ lastOp.op = "get" /\ lastOp.node = "zz"
    /\ lastOp.ran["tt"] = 1 /\ lastOp.ran["zz"] = 1
    /\ lastOp.exc = Err("Error", "tt", 2) /\ error["zz"] = lastOp.exc
    /\ value["zz"] = ERRORED /\ value["tt"] = ERRORED
    /\ value["a"] = 1 /\ version["a"] = 1 /\ value["u"] = 0 /\ version["u"] = 0

\* the nodes that hold one of the nodes of S in their producer list
ProducersOf(S) ==
    {p \in Nodes : \E n \in S : \E i \in 1..Len(producerNode[n]) : producerNode[n][i] = p}
RECURSIVE ProducerReach(_, _)
ProducerReach(frontier, found) ==
    IF frontier = {} THEN found
    ELSE ProducerReach(ProducersOf(frontier) \ found, found \cup ProducersOf(frontier))
\* the nodes a Watcher reaches through producer lists
Watched == ProducerReach(Watchers, {})

\* C35: when an effect's disposer has returned, the effect's node is in no
\* live-consumer list and has no live consumer; and after every operation
\* (a disposer call, or a flush in which a recomputation stopped reading a
\* producer) a node that no Watcher reaches through producer lists any more
\* is in no live-consumer list and has no live consumer of its own.
C35_DisposeCascade ==
    /\ (lastOp.op = "dispose" /\ lastOp.exc = NoError) =>
          /\ liveConsumerNode[lastOp.node] = << >>
          /\ \A p \in Nodes : ~IsLiveConsumerOf(lastOp.node, p)
          /\ lastOp.node \notin Watched
    /\ \A n \in Nodes \ (Watchers \cup Watched) :
          /\ liveConsumerNode[n] = << >>
          /\ \A p \in Nodes : ~IsLiveConsumerOf(n, p)
\* the first effect, which read a and v, has been disposed while the second
\* still reads s: v has no live consumer and is no live consumer of s, and s
\* is the only live consumer of a
C35_Witness ==
    /\ graph = "cascade" /\ lastOp.op = "dispose" /\ lastOp.node = "e1"
    /\ lastOp.exc = NoError
    /\ producerNode["e1"] = <<"a", "v">> /\ producerNode["W"] = <<"e2">>
    /\ liveConsumerNode["v"] = << >> /\ liveConsumerNode["s"] = <<"e2">>
    /\ liveConsumerNode["a"] = <<"s">> /\ liveConsumerNode["e2"] = <<"W">>

\* C36: whatever the order of effect() and disposer calls, no disposer call
\* throws, and after every operation the producer list of the scheduler's
\* Watcher has a node in every slot and holds the nodes of the undisposed
\* effects and no others, each once.
C36_RegisterDispose ==
    /\ lastOp.op = "dispose" => lastOp.exc = NoError
    /\ \A i \in 1..Len(producerNode["W"]) : producerNode["W"][i] \in Effects
    /\ \A e \in Effects :
          Cardinality({i \in 1..Len(producerNode["W"]) : producerNode["W"][i] = e})
             = IF Undisposed(e) THEN 1 ELSE 0

\* C37: the active consumer is restored when Computed.get, untrack and
\* Watcher.watch finish, by return or by throw: after every operation the
\* active consumer is null.
C37_ActiveConsumerRestored == activeConsumer = Null

\* C38: the notification-phase flag is restored when propagation ends, also
\* when a notify callback throws: after every operation it is false, and the
\* call a notify callback made into the engine was made with the flag set (a
\* set() was rejected as a write, a State.get() as a read in the
\* notification phase).
C38_NotifyFlagRestored ==
    /\ inNotificationPhase = FALSE
    /\ lastOp.inner.op = "set" => lastOp.inner.exc = WriteInNotify
    /\ (lastOp.inner.op = "get" /\ lastOp.inner.node \in Sources) =>
          lastOp.inner.exc = ReadInNotify
\* a.set(1) whose notify callback called u.set(1) outside try / catch: the
\* error came out of a.set and the flag is false again
C38_Witness ==
    /\ graph = "nsetx" /\ lastOp.op = "set" /\ lastOp.node = "a"
    /\ lastOp.exc = WriteInNotify /\ lastOp.inner.exc = WriteInNotify
    /\ ~inNotificationPhase /\ value["a"] = 1 /\ dirty["w"]

\* C39: Computed.get never returns UNSET, COMPUTING or ERRORED: in no
\* operation did a get() of a Computed, from top-level code, from a
\* computation or from a notify callback, return one of them, and a top-level
\* get() that returns normally returns none of them.
C39_NoInternalValue ==
    /\ ~lastOp.leaked
    /\ (lastOp.op = "get" /\ lastOp.exc = NoError) =>
          lastOp.ret \notin {UNSET, COMPUTING, ERRORED}
\* i.get(): the function of i wrote a, the notify callback called i.get()
\* while i was COMPUTING and got the cycle error; the outer get returned 1
C39_Witness ==
    /\ graph = "nself" /\ lastOp.op = "get" /\ lastOp.node = "i"
    /\ lastOp.exc = NoError /\ lastOp.ret = 1 /\ lastOp.ran["i"] = 1
    /\ lastOp.inner.op = "get" /\ lastOp.inner.node = "i"
    /\ lastOp.inner.exc.kind = "Cycle" /\ value["a"] = 1

\* the items met by following next from state.first, at most MaxItems + 1 of them
RECURSIVE ListFrom(_, _)
ListFrom(it, k) ==
    IF it = NoItem \/ k = 0 THEN << >>
    ELSE <<it>> \o ListFrom(itemNext[it], k - 1)
ItemList == ListFrom(first, MaxItems + 1)

\* C40: after every x-for reconciliation the item list is well formed:
\* following next from state.first visits, each once, the items held in
\* keyMap, in the order of the new keys; prev mirrors next; state.last is the
\* final item.
C40_LinkedList ==
    /\ [j \in 1..Len(ItemList) |-> itemKey[ItemList[j]]] = lastFor.newKeys
    /\ {ItemList[j] : j \in 1..Len(ItemList)} = {keyMap[j] : j \in 1..Len(keyMap)}
    /\ \A j \in 1..Len(ItemList) :
          itemPrev[ItemList[j]] = IF j = 1 THEN NoItem ELSE ItemList[j - 1]
    /\ last = IF ItemList = << >> THEN NoItem ELSE ItemList[Len(ItemList)]

====
